---- MODULE Spec2Model ----
(***************************************************************************)
(* Vector store (in-memory and disk-mirrored builds), the ChromaDB backend *)
(* and the AdaptiveVectorStore router of the Qshakti chatbot backend.      *)
(*                                                                         *)
(* Embeddings are vectors of small integers; a cosine score is kept as the *)
(* exact pair (dot, na * nb), standing for dot / sqrt(na * nb), so scores  *)
(* are compared without rounding.                                          *)
(***************************************************************************)
EXTENDS Integers, Sequences, FiniteSets, TLC

\* ---------------------------------------------------------------- bounds
MaxBatch == 2
MaxTopK == 3
MaxSaveFail == 1
MaxCalls == 3
MaxTextLen == 10
MaxSize == 5
MaxSpin == 2
MaxLoads == 2
MaxDepth == 3
MaxReqs == 2

\* ---------------------------------------------------------------- values
NS == {"A", "B"}
Ids == {"x", "y", "z"}
Embs == {<<0, 0>>, <<1, 0>>, <<2, 0>>, <<1, 1>>}

\* VectorRecord {id, namespace, embedding}; text and metadata travel with
\* the record as a whole and are not inspected by the stores.
AllRecords == [id : Ids, ns : NS, emb : Embs]

\* The record inputs: in namespace A, x with three embeddings, y and z with
\* one each; one record in namespace B.
Records ==
    {r \in AllRecords :
        \/ r.ns = "A" /\ r.id = "x" /\ r.emb \in {<<0, 0>>, <<1, 0>>, <<2, 0>>}
        \/ r.ns = "A" /\ r.id = "y" /\ r.emb = <<1, 1>>
        \/ r.ns = "A" /\ r.id = "z" /\ r.emb = <<1, 0>>
        \/ r.ns = "B" /\ r.id = "x" /\ r.emb = <<1, 0>>}

RECURSIVE SeqsUpTo(_, _)
SeqsUpTo(S, n) ==
    IF n = 0 THEN {<<>>}
    ELSE LET shorter == SeqsUpTo(S, n - 1)
         IN  shorter \cup {Append(s, e) : s \in {t \in shorter : Len(t) = n - 1}, e \in S}

Batches == SeqsUpTo(Records, MaxBatch)

\* A query input; defined = FALSE stands for an `undefined` embedding.
QueryInputs ==
    [namespace : NS, embedding : Embs, defined : {TRUE}, topK : 1..MaxTopK]
    \cup [namespace : NS, embedding : {<<0, 0>>}, defined : {FALSE}, topK : {1}]

Min(a, b) == IF a < b THEN a ELSE b

\* ---------------------------------------------------------------- cosine
RECURSIVE DotUpTo(_, _, _)
DotUpTo(a, b, n) == IF n = 0 THEN 0 ELSE DotUpTo(a, b, n - 1) + a[n] * b[n]

\* cosine without the division by the norms: the raw dot product
cosine_RawDot(a, b) == [d |-> DotUpTo(a, b, Min(Len(a), Len(b))), m |-> 1]

\* cosine(a, b): dot / ((sqrt(na) * sqrt(nb)) || 1) over the first
\* min(a.length, b.length) components, as the pair (d, m) = (dot, na * nb).
cosine(a, b) ==
    LET len == Min(Len(a), Len(b))
        dot == DotUpTo(a, b, len)
        na == DotUpTo(a, a, len)
        nb == DotUpTo(b, b, len)
    IN  [d |-> dot, m |-> IF na * nb = 0 THEN 1 ELSE na * nb]

\* s > t for scores d / sqrt(m), m >= 1
ScoreGT(s, t) ==
    IF s.d >= 0 /\ t.d < 0 THEN TRUE
    ELSE IF s.d < 0 /\ t.d >= 0 THEN FALSE
    ELSE IF s.d >= 0 THEN s.d * s.d * t.m > t.d * t.d * s.m
    ELSE s.d * s.d * t.m < t.d * t.d * s.m

ScoreEQ(s, t) == ~ScoreGT(s, t) /\ ~ScoreGT(t, s)

IsOne(s) == s.d > 0 /\ s.d * s.d = s.m

\* ---------------------------------------------------------------- sort
\* scored.sort((a, b) => b.score - a.score): a stable sort, descending.
\* Insert x after every element that does not score strictly below it.
\* InsertDesc placing x before the elements it ties with: an unstable sort
RECURSIVE InsertDesc_BeforeTies(_, _)
InsertDesc_BeforeTies(sorted, x) ==
    IF sorted = <<>> THEN <<x>>
    ELSE IF ~ScoreGT(Head(sorted).score, x.score) THEN <<x>> \o sorted
    ELSE <<Head(sorted)>> \o InsertDesc_BeforeTies(Tail(sorted), x)

RECURSIVE InsertDesc(_, _)
InsertDesc(sorted, x) ==
    IF sorted = <<>> THEN <<x>>
    ELSE IF ScoreGT(x.score, Head(sorted).score) THEN <<x>> \o sorted
    ELSE <<Head(sorted)>> \o InsertDesc(Tail(sorted), x)

RECURSIVE SortDescFrom(_, _, _)
SortDescFrom(scored, i, acc) ==
    IF i > Len(scored) THEN acc
    ELSE SortDescFrom(scored, i + 1, InsertDesc(acc, scored[i]))

SortDesc(scored) == SortDescFrom(scored, 1, <<>>)

\* scored.slice(0, topK) for topK >= 0
Slice(s, k) == SubSeq(s, 1, Min(k, Len(s)))

\* ---------------------------------------------------------------- state
VARIABLES
    mirrored,           \* TRUE: the disk-mirrored build of the volatile store
    db,                 \* db[namespace]: the in-process list of records
    dbKeys,             \* the namespaces that are keys of db
    disk,               \* the .vector_storage/<namespace>.json files
    saveFails,          \* failed mirror writes so far
    last,               \* the last direct call on the volatile store
    chromaDb,           \* the collections of the ChromaDB server
    activeStore,        \* AdaptiveVectorStore.activeStore
    isChromaAvailable,  \* AdaptiveVectorStore.isChromaAvailable
    probe,              \* initializeChroma: "pending" at its await, then the probe's answer
    calls,              \* the router calls made so far, in the order they were made
    everDowngraded,     \* a fallback branch of the router has run
    chunker,            \* the chunkText call in progress and its caller
    schemaMap,          \* DynamicSchemaMapper.schemaMap
    loads,              \* the documents loadSchema was called with, in order
    mcall,              \* the last read call on the schema mapper
    narr,               \* the buildRelationshipNarrative call in progress
    http                \* the HTTP requests received so far, in the order they came

storeVars == <<mirrored, db, dbKeys, disk, saveFails>>
routerVars == <<chromaDb, activeStore, isChromaAvailable, probe, calls, everDowngraded>>
mapperVars == <<schemaMap, loads, mcall>>
utilVars == <<chunker, schemaMap, loads, mcall, narr, http>>
vars == <<mirrored, db, dbKeys, disk, saveFails, last, chromaDb, activeStore,
          isChromaAvailable, probe, calls, everDowngraded, chunker, schemaMap,
          loads, mcall, narr, http>>

\* ---------------------------------------------------------------- chunkText
\* chunkText(text, chunkSize = 800, chunkOverlap = 100)
DefaultChunkSize == 800
DefaultChunkOverlap == 100

\* A text is the sequence of its characters.
Alphabet == <<"a", "b", "c", "d", "e", "f", "g", "h", "i", "j">>
TextOf(n) == [k \in 1..n |-> Alphabet[((k - 1) % Len(Alphabet)) + 1]]

Max(a, b) == IF a > b THEN a ELSE b

\* text.slice(from, to) for 0 <= from
slice(text, from, to) == SubSeq(text, from + 1, to)

\* const end = Math.min(text.length, i + chunkSize)
ChunkEnd(len, i, chunkSize) == Min(len, i + chunkSize)

\* the next offset leaving one character out
NextOffset_Gap(end, chunkOverlap) == end + 1

\* the next offset without the overlap
NextOffset_NoOverlap(end, chunkOverlap) == end

\* the next offset always moving forward by at least one character
NextOffset_Advances(end, chunkOverlap) ==
    IF chunkOverlap >= end THEN end ELSE end - chunkOverlap

\* i = end - chunkOverlap; if (i < 0) i = 0
NextOffset(end, chunkOverlap) == Max(0, end - chunkOverlap)

\* No chunkText call in progress. offs keeps, for every chunk pushed, the
\* value of i it was sliced at.
ChunkerIdle ==
    [caller |-> "none", status |-> 0, text |-> <<>>,
     chunkSize |-> DefaultChunkSize, chunkOverlap |-> DefaultChunkOverlap,
     i |-> 0, chunks |-> <<>>, offs |-> <<>>, pc |-> "idle"]

\* ---------------------------------------------------------------- JavaScript values
Num(n) == [t |-> "number", n |-> n, s |-> ""]
Str(s) == [t |-> "string", n |-> 0, s |-> s]
Undefined == [t |-> "undefined", n |-> 0, s |-> ""]
Null == [t |-> "null", n |-> 0, s |-> ""]

\* a value in a condition: 0, "", null and undefined are false
Truthy(v) == (v.t = "number" /\ v.n # 0) \/ (v.t = "string" /\ v.s # "")

Digits == "0123456789"
CharAt(s, i) == SubSeq(s, i, i)

RECURSIVE NumToString(_)
NumToString(n) ==
    IF n < 10 THEN CharAt(Digits, n + 1)
    ELSE NumToString(n \div 10) \o CharAt(Digits, (n % 10) + 1)

\* `${v}`
TemplateString(v) ==
    IF v.t = "number" THEN NumToString(v.n)
    ELSE IF v.t = "string" THEN v.s
    ELSE v.t

\* a || b
Or(a, b) == IF Truthy(a) THEN a ELSE b

\* s.includes(keyword); str is s, computed once
includes(s, keyword) ==
    \E str \in {s} :
       \E i \in 0..(Len(str) - Len(keyword)) : SubSeq(str, i + 1, i + Len(keyword)) = keyword

UpperLetters == "ABCDEFGHIJKLMNOPQRSTUVWXYZ"
LowerLetters == "abcdefghijklmnopqrstuvwxyz"

LowerChar(c) ==
    IF \E k \in 1..Len(UpperLetters) : CharAt(UpperLetters, k) = c
    THEN CharAt(LowerLetters, CHOOSE k \in 1..Len(UpperLetters) : CharAt(UpperLetters, k) = c)
    ELSE c

RECURSIVE toLowerCase(_)
toLowerCase(s) ==
    IF s = "" THEN ""
    ELSE LowerChar(CharAt(s, 1)) \o toLowerCase(SubSeq(s, 2, Len(s)))

\* parts.join(sep)
RECURSIVE join(_, _)
join(parts, sep) ==
    IF parts = <<>> THEN ""
    ELSE IF Len(parts) = 1 THEN parts[1]
    ELSE parts[1] \o sep \o join(Tail(parts), sep)

\* A record (a row) is the sequence of its fields [k, v] in key order.
F(k, v) == [k |-> k, v |-> v]

\* record[k]
Field(record, k) ==
    IF \E i \in DOMAIN record : record[i].k = k
    THEN record[CHOOSE i \in DOMAIN record : record[i].k = k].v
    ELSE Undefined

\* record[Object.keys(record)[0]]
FirstField(record) == IF record = <<>> THEN Undefined ELSE record[1].v

\* ---------------------------------------------------------------- schema documents
Rel(column, references_table, references_column) ==
    [column |-> column, references_table |-> references_table,
     references_column |-> references_column]

\* one entry of the JSON document: a table object, or a value that is no object
TableEntry(name, columns, sample_rows, recursive_rows, relationships) ==
    [name |-> name, isObject |-> TRUE, columns |-> columns, sample_rows |-> sample_rows,
     recursive_rows |-> recursive_rows, relationships |-> relationships]

ScalarEntry(name) ==
    [name |-> name, isObject |-> FALSE, columns |-> <<>>, sample_rows |-> <<>>,
     recursive_rows |-> <<>>, relationships |-> <<>>]

\* orders.customer_id references customers.id
ShopDoc ==
    <<TableEntry("orders", <<"id", "customer_id">>,
                 << <<F("id", Num(1)), F("customer_id", Num(42))>> >>, <<>>,
                 <<Rel("customer_id", "customers", "id")>>),
      TableEntry("customers", <<"id", "name">>,
                 << <<F("id", Num(42)), F("name", Str("Acme"))>> >>, <<>>, <<>>)>>

\* a references b and itself, b references a (a cycle) and c; one row of b
\* has no displayable field, one key of b is held by two rows, c has a row
\* with id 0
GraphDoc ==
    <<TableEntry("a", <<"id", "name", "b_id", "parent_id">>,
                 << <<F("id", Num(1)), F("name", Str("A1")), F("b_id", Num(1)),
                      F("parent_id", Num(2))>>,
                    <<F("id", Num(2)), F("name", Str("A2")), F("b_id", Num(2)),
                      F("parent_id", Num(2))>> >>,
                 << <<F("id", Num(3)), F("name", Str("A3")), F("b_id", Num(2)),
                      F("parent_id", Num(0))>> >>,
                 <<Rel("b_id", "b", "id"), Rel("parent_id", "a", "id")>>),
      TableEntry("b", <<"id", "name", "a_id", "c_id">>,
                 << <<F("id", Num(1)), F("name", Str("B1")), F("a_id", Num(1)),
                      F("c_id", Num(0))>>,
                    <<F("id", Num(2)), F("a_id", Num(3)), F("c_id", Num(0))>> >>,
                 << <<F("id", Num(1)), F("name", Str("B1x")), F("a_id", Num(2)),
                      F("c_id", Num(0))>> >>,
                 <<Rel("a_id", "a", "id"), Rel("c_id", "c", "id")>>),
      TableEntry("c", <<"id", "name">>,
                 << <<F("id", Num(0)), F("name", Str("C0"))>> >>, <<>>, <<>>)>>

\* an entry that is no object, a table without an id column, a column with
\* two edges, an edge to a table that is not in the document, and a row
\* that holds the number 1 where the key is the string "1"
PlantDoc ==
    <<ScalarEntry("version"),
      TableEntry("plant_master", <<"plant_id", "plant_name">>,
                 << <<F("plant_id", Num(7)), F("plant_name", Str("P7"))>>,
                    <<F("plant_id", Str("1")), F("plant_name", Str("P1"))>> >>, <<>>, <<>>),
      TableEntry("Inspection_Schedule", <<"id", "plant_id", "ghost_id">>,
                 << <<F("id", Num(1)), F("plant_id", Num(7)), F("ghost_id", Num(1))>>,
                    <<F("id", Num(2)), F("plant_id", Num(1)), F("ghost_id", Num(1))>> >>, <<>>,
                 <<Rel("ghost_id", "ghost", "id"),
                   Rel("plant_id", "plant_master", "plant_id"),
                   Rel("plant_id", "a", "id")>>),
      TableEntry("a", <<"id", "name">>,
                 << <<F("id", Num(7)), F("name", Str("A7"))>> >>, <<>>, <<>>)>>

SchemaDocs == [shop |-> ShopDoc, graph |-> GraphDoc, plant |-> PlantDoc]
DocNames == DOMAIN SchemaDocs

\* ---------------------------------------------------------------- DynamicSchemaMapper
\* private schemaMap: SchemaMap | null = null
NoSchema == [loaded |-> FALSE, tables |-> <<>>, relationships |-> <<>>]

\* tables[tableName] = {name, columns, sample_rows, recursive_rows, relationships}
TableInfoOf(entry) ==
    [name |-> entry.name, columns |-> entry.columns, sample_rows |-> entry.sample_rows,
     recursive_rows |-> entry.recursive_rows, relationships |-> entry.relationships]

\* relationships.push({from_table, from_column, to_table, to_column}) for
\* every rel of the table
EdgesOf(entry) ==
    [i \in 1..Len(entry.relationships) |->
        [from_table |-> entry.name,
         from_column |-> entry.relationships[i].column,
         to_table |-> entry.relationships[i].references_table,
         to_column |-> entry.relationships[i].references_column]]

\* the loop of loadSchema over Object.entries(jsonData), from entry i on
RECURSIVE LoadFrom(_, _, _, _)
LoadFrom(jsonData, i, tables, relationships) ==
    IF i > Len(jsonData)
    THEN [loaded |-> TRUE, tables |-> tables, relationships |-> relationships]
    ELSE IF jsonData[i].isObject
    THEN LoadFrom(jsonData, i + 1, Append(tables, TableInfoOf(jsonData[i])),
                  relationships \o EdgesOf(jsonData[i]))
    ELSE LoadFrom(jsonData, i + 1, tables, relationships)

\* what loadSchema(jsonData) builds and returns
loadSchema(jsonData) == LoadFrom(jsonData, 1, <<>>, <<>>)

\* the tables and edges of the old map kept, those of the new one added
AssignSchemaMap_Merge(old, new) ==
    [loaded |-> TRUE,
     tables |-> SelectSeq(old.tables,
                          LAMBDA t : \A k \in DOMAIN new.tables : new.tables[k].name # t.name)
                \o new.tables,
     relationships |-> old.relationships \o new.relationships]

\* this.schemaMap = { tables, relationships }
\* the tables installed before the relationships: the new tables with the
\* edges of the map before
AssignSchemaMap_TablesFirst(old, new) ==
    [loaded |-> TRUE, tables |-> new.tables, relationships |-> old.relationships]

\* this.schemaMap = { tables, relationships }
AssignSchemaMap(old, new) == new

\* this.schemaMap.tables[name]: the index of the table, 0 for undefined
TableIndex(sm, name) ==
    IF \E i \in DOMAIN sm.tables : sm.tables[i].name = name
    THEN CHOOSE i \in DOMAIN sm.tables : sm.tables[i].name = name
    ELSE 0

\* Object.keys(this.schemaMap.tables)
TableNamesOf(sm) == [i \in 1..Len(sm.tables) |-> sm.tables[i].name]

Categories == {"inspection", "master", "user", "admin", "other"}

\* categories[category] || []
Keywords(category) ==
    IF category = "inspection" THEN <<"inspection", "reading", "schedule">>
    ELSE IF category = "master" THEN <<"master", "plant", "machine", "operation", "item">>
    ELSE IF category = "user" THEN <<"auth", "user", "permission">>
    ELSE IF category = "admin" THEN <<"django", "session", "migration">>
    ELSE <<>>

getTablesByCategory(sm, category) ==
    IF ~sm.loaded THEN <<>>
    ELSE SelectSeq(TableNamesOf(sm),
                   LAMBDA name :
                     \E k \in DOMAIN Keywords(category) :
                        includes(toLowerCase(name), toLowerCase(Keywords(category)[k])))

Related(table, via, type) == [table |-> table, via |-> via, type |-> type]

\* the referenced_by entries taken from every edge, whatever its to_table
getRelatedTables_AllReferencedBy(sm, tableName) ==
    IF ~sm.loaded THEN <<>>
    ELSE LET fks == SelectSeq(sm.relationships, LAMBDA rel : rel.from_table = tableName)
         IN  [i \in 1..Len(fks) |-> Related(fks[i].to_table, fks[i].from_column, "foreign_key")]
             \o [i \in 1..Len(sm.relationships) |->
                    Related(sm.relationships[i].from_table, sm.relationships[i].from_column,
                            "referenced_by")]

\* the two loops of getRelatedTables over this.schemaMap.relationships
getRelatedTables(sm, tableName) ==
    IF ~sm.loaded THEN <<>>
    ELSE LET fks == SelectSeq(sm.relationships, LAMBDA rel : rel.from_table = tableName)
             refs == SelectSeq(sm.relationships, LAMBDA rel : rel.to_table = tableName)
         IN  [i \in 1..Len(fks) |-> Related(fks[i].to_table, fks[i].from_column, "foreign_key")]
             \o [i \in 1..Len(refs) |->
                    Related(refs[i].from_table, refs[i].from_column, "referenced_by")]

\* null or undefined: nothing found
NotFound == [found |-> FALSE, record |-> <<>>]
Found(record) == [found |-> TRUE, record |-> record]

\* relationships.find(rel => rel.from_table === tableName &&
\* rel.from_column === columnName): the index of the first such edge, 0 for
\* undefined
FindEdge(relationships, tableName, columnName) ==
    LET hits == {i \in DOMAIN relationships :
                    /\ relationships[i].from_table = tableName
                    /\ relationships[i].from_column = columnName}
    IN  IF hits = {} THEN 0 ELSE CHOOSE i \in hits : \A j \in hits : i <= j

\* allRows.find(row => row[to_column] === value): the index of the first
\* such row, 0 for undefined
FindRow(allRows, to_column, value) ==
    LET hits == {i \in DOMAIN allRows : Field(allRows[i], to_column) = value}
    IN  IF hits = {} THEN 0 ELSE CHOOSE i \in hits : \A j \in hits : i <= j

\* a lookup that falls back to the first row of the table when no row matches
LookupRow_FirstRow(table, to_column, value) ==
    LET allRows == table.sample_rows \o table.recursive_rows
        idx == FindRow(allRows, to_column, value)
    IN  IF allRows = <<>> THEN NotFound
        ELSE IF idx = 0 THEN Found(allRows[1]) ELSE Found(allRows[idx])

\* const allRows = [...sample_rows, ...recursive_rows]; return allRows.find(...)
LookupRow(table, to_column, value) ==
    LET allRows == table.sample_rows \o table.recursive_rows
        idx == FindRow(allRows, to_column, value)
    IN  IF idx = 0 THEN NotFound ELSE Found(allRows[idx])

resolveReference(sm, tableName, columnName, value) ==
    IF ~sm.loaded \/ ~Truthy(value) THEN NotFound
    ELSE LET r == FindEdge(sm.relationships, tableName, columnName)
         IN  IF r = 0 THEN NotFound
             ELSE LET t == TableIndex(sm, sm.relationships[r].to_table)
                  IN  IF t = 0 THEN NotFound
                      ELSE LookupRow(sm.tables[t], sm.relationships[r].to_column, value)

\* the lines of one table in generateSchemaDocumentation
TableDocLines(sm, tableName) ==
    LET table == sm.tables[TableIndex(sm, tableName)]
        related == getRelatedTables(sm, tableName)
        fk == SelectSeq(related, LAMBDA r : r.type = "foreign_key")
        ref == SelectSeq(related, LAMBDA r : r.type = "referenced_by")
        fkTables == [i \in 1..Len(fk) |-> fk[i].table \o " (via " \o fk[i].via \o ")"]
        refTables == [i \in 1..Len(ref) |-> ref[i].table \o " (via " \o ref[i].via \o ")"]
    IN  <<"### " \o tableName,
          "**Columns:** " \o join(table.columns, ", "),
          "**Records:** " \o NumToString(Len(table.sample_rows)) \o " samples">>
        \o (IF fkTables # <<>> THEN <<"**References:** " \o join(fkTables, ", ")>> ELSE <<>>)
        \o (IF refTables # <<>> THEN <<"**Referenced by:** " \o join(refTables, ", ")>> ELSE <<>>)
        \o <<"">>

RECURSIVE TablesDocLines(_, _, _)
TablesDocLines(sm, tables, i) ==
    IF i > Len(tables) THEN <<>>
    ELSE TableDocLines(sm, tables[i]) \o TablesDocLines(sm, tables, i + 1)

CategoryTitles ==
    <<[title |-> "Inspection & Quality Control", category |-> "inspection"],
      [title |-> "Master Data", category |-> "master"],
      [title |-> "User Management", category |-> "user"],
      [title |-> "System Tables", category |-> "admin"]>>

RECURSIVE CategoryDocLines(_, _)
CategoryDocLines(sm, c) ==
    IF c > Len(CategoryTitles) THEN <<>>
    ELSE LET tables == getTablesByCategory(sm, CategoryTitles[c].category)
         IN  (IF tables = <<>> THEN <<>>
              ELSE <<"## " \o CategoryTitles[c].title \o "\n">> \o TablesDocLines(sm, tables, 1))
             \o CategoryDocLines(sm, c + 1)

\* generateSchemaDocumentation(): the lines that are joined with "\n"
generateSchemaDocumentation(sm) ==
    IF ~sm.loaded THEN <<"No schema loaded">>
    ELSE <<"# Database Schema Documentation\n">>
         \o CategoryDocLines(sm, 1)
         \o <<"## Relationships Summary\n">>
         \o [i \in 1..Len(sm.relationships) |->
                "- **" \o sm.relationships[i].from_table \o "**."
                \o sm.relationships[i].from_column \o " -> **"
                \o sm.relationships[i].to_table \o "**." \o sm.relationships[i].to_column]

\* ---------------------------------------------------------------- EnhancedJsonToText
\* a narrative: a string, or null
NoLine == [shown |-> FALSE, text |-> ""]
Line(text) == [shown |-> TRUE, text |-> text]

identifyTableType(tableName) ==
    LET name == toLowerCase(tableName)
    IN  IF includes(name, "user") \/ includes(name, "auth_user") THEN "user"
        ELSE IF includes(name, "plant") THEN "plant"
        ELSE IF includes(name, "machine") THEN "machine"
        ELSE IF includes(name, "operation") THEN "operation"
        ELSE IF includes(name, "inspection") THEN "inspection"
        ELSE IF includes(name, "item") \/ includes(name, "material") THEN "item"
        ELSE IF includes(name, "role") \/ includes(name, "group") THEN "role"
        ELSE "generic"

\* if (cond) parts.push(text)
PartIf(cond, text) == IF cond THEN <<text>> ELSE <<>>

\* values.filter(Boolean), each as the string join makes of it
RECURSIVE FilterBoolean(_)
FilterBoolean(values) ==
    IF values = <<>> THEN <<>>
    ELSE PartIf(Truthy(Head(values)), TemplateString(Head(values)))
         \o FilterBoolean(Tail(values))

\* return parts.length > 0 ? parts.join(', ') : null
PartsLine(parts) == IF parts = <<>> THEN NoLine ELSE Line(join(parts, ", "))

createUserNarrative(record) ==
    LET name == join(FilterBoolean(<<Field(record, "first_name"), Field(record, "middle_name"),
                                     Field(record, "last_name")>>), " ")
    IN  PartsLine(
          (IF Truthy(Field(record, "first_name")) \/ Truthy(Field(record, "last_name"))
           THEN <<"User: " \o name>>
           ELSE PartIf(Truthy(Field(record, "username")),
                       "User: " \o TemplateString(Field(record, "username"))))
          \o PartIf(Truthy(Field(record, "email")),
                    "Email: " \o TemplateString(Field(record, "email")))
          \o PartIf(Truthy(Field(record, "phone_number")),
                    "Phone: " \o TemplateString(Field(record, "phone_number"))))

createPlantNarrative(record) ==
    LET location == join(FilterBoolean(<<Field(record, "plant_location_1"),
                                         Field(record, "plant_location_2")>>), ", ")
    IN  PartsLine(
          PartIf(Truthy(Field(record, "plant_name")),
                 "Plant: " \o TemplateString(Field(record, "plant_name")))
          \o PartIf(Truthy(Field(record, "plant_id")),
                    "ID: " \o TemplateString(Field(record, "plant_id")))
          \o PartIf(location # "", "Location: " \o location))

createMachineNarrative(record) ==
    PartsLine(
      PartIf(Truthy(Field(record, "machine_name")),
             "Machine: " \o TemplateString(Field(record, "machine_name")))
      \o PartIf(Truthy(Field(record, "machine_id")),
                "ID: " \o TemplateString(Field(record, "machine_id")))
      \o PartIf(Truthy(Field(record, "machine_make")) /\ Truthy(Field(record, "machine_model")),
                "Make/Model: " \o TemplateString(Field(record, "machine_make")) \o " "
                \o TemplateString(Field(record, "machine_model"))))

createOperationNarrative(record) ==
    PartsLine(
      PartIf(Truthy(Field(record, "operation_name")),
             "Operation: " \o TemplateString(Field(record, "operation_name")))
      \o PartIf(Truthy(Field(record, "operation_id")),
                "ID: " \o TemplateString(Field(record, "operation_id"))))

\* record.LSL !== null && record.USL !== null holds for absent fields too
createInspectionNarrative(record) ==
    PartsLine(
      PartIf(Truthy(Field(record, "inspection_parameter")),
             "Parameter: " \o TemplateString(Field(record, "inspection_parameter")))
      \o PartIf(Truthy(Field(record, "inspection_frequency")),
                "Frequency: " \o TemplateString(Field(record, "inspection_frequency")))
      \o PartIf(Field(record, "LSL") # Null /\ Field(record, "USL") # Null,
                "Limits: " \o TemplateString(Field(record, "LSL")) \o " - "
                \o TemplateString(Field(record, "USL"))))

createItemNarrative(record) ==
    PartsLine(
      PartIf(Truthy(Field(record, "item_description")) \/ Truthy(Field(record, "item_name")),
             "Item: " \o TemplateString(Or(Field(record, "item_description"),
                                           Field(record, "item_name"))))
      \o PartIf(Truthy(Field(record, "item_code")),
                "Code: " \o TemplateString(Field(record, "item_code")))
      \o PartIf(Truthy(Field(record, "item_type")),
                "Type: " \o TemplateString(Field(record, "item_type"))))

createRoleNarrative(record) ==
    PartsLine(
      PartIf(Truthy(Field(record, "name")), "Role: " \o TemplateString(Field(record, "name")))
      \o PartIf(Truthy(Field(record, "description")),
                "Description: " \o TemplateString(Field(record, "description"))))

displayFields == <<"name", "title", "description", "id">>

\* record[field] && typeof record[field] === 'string'
Displayable(record, field) == Field(record, field).t = "string" /\ Field(record, field).s # ""

\* a generic narrative that looks at the title only
createGenericNarrative_TitleOnly(tableName, record, viaColumn) ==
    IF Displayable(record, "title")
    THEN Line(tableName \o " (title: " \o Field(record, "title").s \o ")")
    ELSE NoLine

\* the first display field that holds a non-empty string
createGenericNarrative(tableName, record, viaColumn) ==
    LET hits == {i \in DOMAIN displayFields : Displayable(record, displayFields[i])}
    IN  IF hits = {} THEN NoLine
        ELSE LET field == displayFields[CHOOSE i \in hits : \A j \in hits : i <= j]
             IN  Line(tableName \o " (" \o field \o ": " \o Field(record, field).s \o ")")

createHumanReadableReference(tableName, record, viaColumn) ==
    LET tableType == identifyTableType(tableName)
    IN  IF tableType = "user" THEN createUserNarrative(record)
        ELSE IF tableType = "plant" THEN createPlantNarrative(record)
        ELSE IF tableType = "machine" THEN createMachineNarrative(record)
        ELSE IF tableType = "operation" THEN createOperationNarrative(record)
        ELSE IF tableType = "inspection" THEN createInspectionNarrative(record)
        ELSE IF tableType = "item" THEN createItemNarrative(record)
        ELSE IF tableType = "role" THEN createRoleNarrative(record)
        ELSE createGenericNarrative(tableName, record, viaColumn)

\* record.id || record[Object.keys(record)[0]]
IdentityOf(record) == Or(Field(record, "id"), FirstField(record))

\* `${tableName}:${record.id || record[Object.keys(record)[0]]}`
recordKey(tableName, record) == tableName \o ":" \o TemplateString(IdentityOf(record))

\* a visited set that never holds a key
HasVisited_Never(visited, key) == FALSE

\* visited.has(recordKey)
HasVisited(visited, key) == key \in visited

\* if (depth >= maxDepth) return []
DepthReached(depth, maxDepth) == depth >= maxDepth

\* one activation of buildRelationshipNarrative: at its entry, or in its
\* loop at relation number rel of relatedTables
Frame(record, tableName, depth) ==
    [record |-> record, tableName |-> tableName, depth |-> depth, pc |-> "entry",
     relatedTables |-> <<>>, rel |-> 1]

\* No narration in progress. narratives is the result as it grows: every
\* activation pushes its lines and then its callee's, so the lines are in
\* the order they are made. trace keeps the expansions and the resolved
\* references of the call.
NarrIdle ==
    [pc |-> "idle", record |-> <<>>, tableName |-> "", maxDepth |-> 0, stack |-> <<>>,
     visited |-> {}, narratives |-> <<>>, trace |-> <<>>]

\* the arguments reads are called with
ReadTables == {"orders", "customers", "a", "b", "c", "plant_master", "Inspection_Schedule", "ghost"}
ReadColumns == {"customer_id", "b_id", "parent_id", "a_id", "c_id", "plant_id", "ghost_id", "id"}
ReadValues == {Num(0), Num(1), Num(2), Num(7), Num(42), Str("1"), Str(""), Undefined, Null}

NoMapperCall ==
    [op |-> "none", table |-> "", column |-> "", value |-> Undefined, category |-> "",
     related |-> <<>>, ref |-> NotFound, names |-> <<>>, doc |-> <<>>]

UtilIdle ==
    /\ chunker = ChunkerIdle
    /\ schemaMap = NoSchema
    /\ loads = <<>>
    /\ mcall = NoMapperCall
    /\ narr = NarrIdle
    /\ http = <<>>

\* ---------------------------------------------------------------- mirror
AbsentFile == [kind |-> "absent", list |-> <<>>]
CorruptFile == [kind |-> "corrupt", list |-> <<>>]
ListFile(l) == [kind |-> "list", list |-> l]

\* loadNamespace: the parsed file, or [] when the file is missing or when
\* reading or parsing it throws. The in-memory build starts every list as [].
loadNamespace(m, dsk, namespace) ==
    IF m /\ dsk[namespace].kind = "list" THEN dsk[namespace].list ELSE <<>>

\* saveNamespace: writeFileSync inside try/catch. w is what the disk does
\* to a write: "ok", "unchanged" (the write throws, the file stays as it
\* was) or "corrupt" (the write throws, the file is cut short).
SaveOutcomes == {"ok", "unchanged", "corrupt"}

saveNamespace(dsk, namespace, records, w) ==
    IF w = "ok" THEN [dsk EXCEPT ![namespace] = ListFile(records)]
    ELSE IF w = "corrupt" THEN [dsk EXCEPT ![namespace] = CorruptFile]
    ELSE dsk

\* ---------------------------------------------------------------- upsert
\* list.findIndex((x) => x.id === id): the first match, 0 for -1
RECURSIVE findIndexFrom(_, _, _)
findIndexFrom(list, id, i) ==
    IF i > Len(list) THEN 0
    ELSE IF list[i].id = id THEN i
    ELSE findIndexFrom(list, id, i + 1)

findIndex(list, id) == findIndexFrom(list, id, 1)

\* PutRecord without the findIndex test: always push
PutRecord_AlwaysPush(list, r) == Append(list, r)

\* PutRecord taking out the old record and pushing the new one at the end
PutRecord_MoveToEnd(list, r) ==
    Append(SelectSeq(list, LAMBDA x : x.id # r.id), r)

\* if (idx >= 0) list[idx] = r; else list.push(r)
PutRecord(list, r) ==
    LET idx == findIndex(list, r.id)
    IN  IF idx > 0 THEN [list EXCEPT ![idx] = r] ELSE Append(list, r)

\* UpsertOne with one list shared by all namespaces (db keyed wrongly)
UpsertOne_SharedList(st, r, w) ==
    LET cur == IF r.ns \in st.keys THEN st.db[r.ns] ELSE <<>>
        new == PutRecord(cur, r)
    IN  [m |-> st.m,
         keys |-> st.keys \cup {r.ns},
         db |-> [n \in DOMAIN st.db |-> new],
         disk |-> IF st.m THEN saveNamespace(st.disk, r.ns, new, w) ELSE st.disk]

\* UpsertOne writing the file before the list: a failed write loses the record
UpsertOne_SaveFirst(st, r, w) ==
    LET cur == IF r.ns \in st.keys THEN st.db[r.ns]
               ELSE loadNamespace(st.m, st.disk, r.ns)
        new == IF st.m /\ w # "ok" THEN cur ELSE PutRecord(cur, r)
    IN  [m |-> st.m,
         keys |-> st.keys \cup {r.ns},
         db |-> [st.db EXCEPT ![r.ns] = new],
         disk |-> IF st.m THEN saveNamespace(st.disk, r.ns, new, w) ELSE st.disk]

\* One turn of the loop of vectorStore.upsert on the store st.
UpsertOne(st, r, w) ==
    LET had == r.ns \in st.keys
        cur == IF had THEN st.db[r.ns] ELSE loadNamespace(st.m, st.disk, r.ns)
        new == PutRecord(cur, r)
    IN  [m |-> st.m,
         keys |-> st.keys \cup {r.ns},
         db |-> [st.db EXCEPT ![r.ns] = new],
         disk |-> IF st.m THEN saveNamespace(st.disk, r.ns, new, w) ELSE st.disk]

\* vectorStore.upsert(records): the whole loop; it has no await in it.
\* The writes of one call all meet the same disk, w.
RECURSIVE UpsertFrom(_, _, _, _)
UpsertFrom(st, records, w, i) ==
    IF i > Len(records) THEN st
    ELSE UpsertFrom(UpsertOne(st, records[i], w), records, w, i + 1)

upsert(st, records, w) == UpsertFrom(st, records, w, 1)

\* ---------------------------------------------------------------- query
\* db[namespace] ?? loadNamespace(namespace)
StoredList(st, namespace) ==
    IF namespace \in st.keys THEN st.db[namespace]
    ELSE loadNamespace(st.m, st.disk, namespace)

Scored(list, embedding) ==
    [i \in 1..Len(list) |-> [r |-> list[i], score |-> cosine(list[i].emb, embedding)]]

Ranked(list, embedding, topK) ==
    LET top == Slice(SortDesc(Scored(list, embedding)), topK)
    IN  [i \in 1..Len(top) |-> top[i].r]

\* vectorStore.query(input): cosine reads embedding.length for every stored
\* record, so an undefined embedding throws unless the list is empty.
query(st, input) ==
    LET list == StoredList(st, input.namespace)
    IN  IF ~input.defined /\ list # <<>>
        THEN [outcome |-> "throw", recs |-> <<>>]
        ELSE [outcome |-> "ok", recs |-> Ranked(list, input.embedding, input.topK)]

Store == [m |-> mirrored, keys |-> dbKeys, db |-> db, disk |-> disk]

\* ---------------------------------------------------------------- direct store calls
NoQuery == [namespace |-> "A", embedding |-> <<0, 0>>, defined |-> TRUE, topK |-> 1]
NoCall == [op |-> "none", batch |-> <<>>, w |-> "ok", q |-> NoQuery,
           outcome |-> "ok", recs |-> <<>>]

\* Files a previous process can have left behind: none, one cut short by a
\* failed write, or a saved list of records of that namespace.
InitialFiles(namespace) ==
    IF namespace = "A"
    THEN {AbsentFile, CorruptFile,
          ListFile(<<[id |-> "y", ns |-> "A", emb |-> <<1, 1>>],
                     [id |-> "x", ns |-> "A", emb |-> <<2, 0>>]>>)}
    ELSE {AbsentFile, CorruptFile}

\* new AdaptiveVectorStore(): activeStore = inMemoryVectorStore, and
\* initializeChroma() has run up to its await of the health check.
RouterIdle ==
    /\ chromaDb = [n \in NS |-> {}]
    /\ activeStore = "mem"
    /\ isChromaAvailable = FALSE
    /\ probe = "pending"
    /\ calls = <<>>
    /\ everDowngraded = FALSE

StoreInit ==
    /\ mirrored \in BOOLEAN
    /\ db = [n \in NS |-> <<>>]
    /\ dbKeys = {}
    /\ disk \in [NS -> {AbsentFile, CorruptFile} \cup UNION {InitialFiles(n) : n \in NS}]
    /\ \A n \in NS : disk[n] \in (IF mirrored THEN InitialFiles(n) ELSE {AbsentFile})
    /\ saveFails = 0
    /\ last = NoCall
    /\ RouterIdle
    /\ UtilIdle

\* What the disk may do to the mirror writes of one upsert. The in-memory
\* build writes nothing.
WriteChoices(m, budget) ==
    IF m /\ budget > 0 THEN SaveOutcomes ELSE {"ok"}

\* await vectorStore.upsert(records), called on the store directly
StoreUpsert ==
    /\ last.op = "none"
    /\ \E batch \in Batches :
        \E w \in WriteChoices(mirrored, MaxSaveFail - saveFails) :
          LET st == upsert(Store, batch, w)
          IN  /\ db' = st.db
              /\ dbKeys' = st.keys
              /\ disk' = st.disk
              /\ saveFails' = IF w = "ok" \/ batch = <<>> THEN saveFails ELSE saveFails + 1
              /\ last' = [NoCall EXCEPT !.op = "upsert", !.batch = batch, !.w = w]
              /\ UNCHANGED <<mirrored, routerVars, utilVars>>

\* await vectorStore.query(input), called on the store directly
StoreQuery ==
    /\ last.op = "none"
    /\ \E input \in QueryInputs :
          LET res == query(Store, input)
          IN  /\ last' = [NoCall EXCEPT !.op = "query", !.q = input,
                                        !.outcome = res.outcome, !.recs = res.recs]
              /\ UNCHANGED <<storeVars, routerVars, utilVars>>

\* The caller's await resumes with the result and the caller moves on.
StoreReturn ==
    /\ last.op # "none"
    /\ last' = NoCall
    /\ UNCHANGED <<storeVars, routerVars, utilVars>>

StoreNext == StoreUpsert \/ StoreQuery \/ StoreReturn

StoreSpec == StoreInit /\ [][StoreNext]_vars

\* ---------------------------------------------------------------- ChromaDB backend
\* recordsByNamespace: the namespaces of a batch in order of first appearance
RECURSIVE NsOrder(_, _, _)
NsOrder(batch, i, acc) ==
    IF i > Len(batch) THEN acc
    ELSE NsOrder(batch, i + 1,
                 IF \E k \in DOMAIN acc : acc[k] = batch[i].ns THEN acc
                 ELSE Append(acc, batch[i].ns))

recordsByNamespace(batch) == NsOrder(batch, 1, <<>>)

GroupOf(batch, n) == SelectSeq(batch, LAMBDA r : r.ns = n)

\* collection.upsert({ids, embeddings, ...}): insert or replace by id
RECURSIVE ChromaPut(_, _, _)
ChromaPut(coll, group, i) ==
    IF i > Len(group) THEN coll
    ELSE ChromaPut({x \in coll : x.id # group[i].id} \cup {group[i]}, group, i + 1)

\* collection.query({nResults: topK}): the server's ranking is its own; any
\* order of min(topK, size) distinct records of the collection
ChromaResults(coll, topK) ==
    LET n == Min(topK, Cardinality(coll))
    IN  {s \in [1..n -> coll] : \A i, j \in 1..n : i # j => s[i] # s[j]}

\* healthCheck: true when client.heartbeat() resolves, false when it throws
healthCheck(heartbeatOk) == heartbeatOk

\* ---------------------------------------------------------------- AdaptiveVectorStore
\* the router calls that are made: two upserts (the second one spans two
\* namespaces) and two queries (the second one without an embedding)
RouterBatches ==
    {<<[id |-> "x", ns |-> "A", emb |-> <<1, 0>>]>>,
     <<[id |-> "y", ns |-> "A", emb |-> <<1, 1>>], [id |-> "x", ns |-> "B", emb |-> <<1, 0>>]>>}

RouterQueries ==
    {[namespace |-> "A", embedding |-> <<1, 0>>, defined |-> TRUE, topK |-> 2],
     [namespace |-> "A", embedding |-> <<0, 0>>, defined |-> FALSE, topK |-> 1]}

NoResult == [outcome |-> "ok", recs |-> <<>>]

NewCall(kind, batch, q) ==
    [kind |-> kind, batch |-> batch, q |-> q,
     pc |-> "start",            \* start, await1 (the try), await2 (the retry), done
     target |-> "mem",          \* the store of the invocation being awaited
     grp |-> 0,                 \* namespace groups ChromaDB has stored for this call
     pend |-> NoResult,         \* what the awaited in-memory invocation settled with
     outcome |-> "none", recs |-> <<>>,
     first |-> "mem",           \* the store the try block called
     nMem |-> 0, nChroma |-> 0, \* invocations of each store made for this call
     chromaFailed |-> FALSE,    \* its ChromaDB invocation threw
     memThrew |-> FALSE,        \* its in-memory invocation in the try block threw
     seq |-> TRUE,              \* every earlier call had returned when it was made
     probeAt |-> "pending",     \* the probe's position when it was made
     afterDown |-> FALSE]       \* it was made after a downgrade

\* the in-memory store's method body runs to its end inside the call
MemStore(call) ==
    IF call.kind = "upsert" THEN upsert(Store, call.batch, "ok") ELSE Store

MemResult(call) ==
    IF call.kind = "query" THEN query(Store, call.q) ELSE NoResult

MemInvoked(call, pc) ==
    [call EXCEPT !.pc = pc, !.target = "mem", !.pend = MemResult(call), !.nMem = @ + 1]

ChromaInvoked(call, pc) ==
    [call EXCEPT !.pc = pc, !.target = "chroma", !.grp = 0, !.nChroma = @ + 1]

\* a catch block that never falls back
ShouldFallBack_Never(avail, active) == FALSE

\* the catch blocks' test: this.isChromaAvailable && this.activeStore === chromaVectorStore
ShouldFallBack(avail, active) == avail /\ active = "chroma"

\* a fallback that clears the flag but leaves activeStore on ChromaDB
Downgraded_KeepsStore == [activeStore |-> "chroma", isChromaAvailable |-> FALSE]

\* a fallback that switches the store but leaves the flag set
Downgraded_KeepsFlag == [activeStore |-> "mem", isChromaAvailable |-> TRUE]

\* this.activeStore = inMemoryVectorStore; this.isChromaAvailable = false
Downgraded == [activeStore |-> "mem", isChromaAvailable |-> FALSE]

InFlight(c) == calls[c].pc # "done"

\* initializeChroma switching to ChromaDB without looking at isHealthy
ProbeResolve_AlwaysUpgrades ==
    /\ probe = "pending"
    /\ \E heartbeatOk \in BOOLEAN :
          /\ probe' = IF healthCheck(heartbeatOk) THEN "healthy" ELSE "unhealthy"
          /\ activeStore' = "chroma"
          /\ isChromaAvailable' = TRUE
    /\ UNCHANGED <<storeVars, last, chromaDb, calls, everDowngraded, utilVars>>

\* initializeChroma resumes from `await chromaVectorStore.healthCheck()`;
\* probe keeps what the health check reported
ProbeResolve ==
    /\ probe = "pending"
    /\ \E heartbeatOk \in BOOLEAN :
          LET isHealthy == healthCheck(heartbeatOk)
          IN  /\ probe' = IF isHealthy THEN "healthy" ELSE "unhealthy"
              /\ activeStore' = IF isHealthy THEN "chroma" ELSE "mem"
              /\ isChromaAvailable' = IF isHealthy THEN TRUE ELSE isChromaAvailable
    /\ UNCHANGED <<storeVars, last, chromaDb, calls, everDowngraded, utilVars>>

RouterInputs ==
    {[kind |-> "upsert", batch |-> b, q |-> NoQuery] : b \in RouterBatches}
    \cup {[kind |-> "query", batch |-> <<>>, q |-> q] : q \in RouterQueries}

SetStore(st) ==
    /\ db' = st.db
    /\ dbKeys' = st.keys
    /\ disk' = st.disk
    /\ UNCHANGED <<mirrored, saveFails>>

\* adaptiveVectorStore.upsert(records) / .query(input) up to the await in
\* the try block: the method of this.activeStore is called
Invoke(inp) ==
    LET call == [NewCall(inp.kind, inp.batch, inp.q) EXCEPT
                    !.first = activeStore,
                    !.seq = \A k \in DOMAIN calls : calls[k].pc = "done",
                    !.probeAt = probe,
                    !.afterDown = everDowngraded]
    IN  IF activeStore = "mem"
        THEN /\ SetStore(MemStore(call))
             /\ calls' = Append(calls, MemInvoked(call, "await1"))
        ELSE /\ calls' = Append(calls, ChromaInvoked(call, "await1"))
             /\ UNCHANGED storeVars

\* a caller of the router makes a call
RouterCall ==
    /\ Len(calls) < MaxCalls
    /\ \E inp \in RouterInputs : Invoke(inp)
    /\ UNCHANGED <<last, chromaDb, activeStore, isChromaAvailable, probe, everDowngraded, utilVars>>

Returned(call, outcome, recs) ==
    [call EXCEPT !.pc = "done", !.outcome = outcome, !.recs = recs]

\* ChromaVectorStore.upsert stores the next namespace group of the batch,
\* or ChromaVectorStore.query answers; after the last group the router's
\* await in the try block resumes and the call returns
ChromaSucceed(c) ==
    /\ InFlight(c)
    /\ calls[c].target = "chroma"
    /\ IF calls[c].kind = "upsert"
       THEN LET groups == recordsByNamespace(calls[c].batch)
                n == groups[calls[c].grp + 1]
            IN  /\ chromaDb' = [chromaDb EXCEPT ![n] = ChromaPut(@, GroupOf(calls[c].batch, n), 1)]
                /\ calls' = [calls EXCEPT ![c] =
                                IF calls[c].grp + 1 = Len(groups)
                                THEN Returned([@ EXCEPT !.grp = Len(groups)], "ok", <<>>)
                                ELSE [@ EXCEPT !.grp = @ + 1]]
       ELSE /\ calls[c].q.defined
            /\ \E res \in ChromaResults(chromaDb[calls[c].q.namespace], calls[c].q.topK) :
                  calls' = [calls EXCEPT ![c] = Returned(@, "ok", res)]
            /\ UNCHANGED chromaDb
    /\ UNCHANGED <<storeVars, last, activeStore, isChromaAvailable, probe, everDowngraded, utilVars>>

\* The catch block of upsert / query, entered with the error of the awaited
\* invocation: fall back and call the in-memory store, or rethrow.
Catch(c, call) ==
    IF ShouldFallBack(isChromaAvailable, activeStore)
    THEN /\ activeStore' = Downgraded.activeStore
         /\ isChromaAvailable' = Downgraded.isChromaAvailable
         /\ everDowngraded' = TRUE
         /\ SetStore(MemStore(call))
         /\ calls' = [calls EXCEPT ![c] = MemInvoked(call, "await2")]
    ELSE /\ calls' = [calls EXCEPT ![c] = Returned(call, "error", <<>>)]
         /\ UNCHANGED <<storeVars, activeStore, isChromaAvailable, everDowngraded>>

\* the awaited ChromaDB invocation throws (getCollection, collection.upsert
\* or collection.query failed); groups stored before stay stored
ChromaFail(c) ==
    /\ InFlight(c)
    /\ calls[c].target = "chroma"
    /\ Catch(c, [calls[c] EXCEPT !.chromaFailed = TRUE])
    /\ UNCHANGED <<last, chromaDb, probe, utilVars>>

\* the await of an in-memory invocation resumes
MemResume(c) ==
    /\ InFlight(c)
    /\ calls[c].target = "mem"
    /\ IF calls[c].pend.outcome = "ok"
       THEN /\ calls' = [calls EXCEPT ![c] = Returned(@, "ok", calls[c].pend.recs)]
            /\ UNCHANGED <<storeVars, activeStore, isChromaAvailable, everDowngraded>>
       ELSE IF calls[c].pc = "await2"
       THEN /\ calls' = [calls EXCEPT ![c] = Returned(@, "error", <<>>)]
            /\ UNCHANGED <<storeVars, activeStore, isChromaAvailable, everDowngraded>>
       ELSE Catch(c, [calls[c] EXCEPT !.memThrew = TRUE])
    /\ UNCHANGED <<last, chromaDb, probe, utilVars>>

Init ==
    /\ mirrored = FALSE
    /\ db = [n \in NS |-> <<>>]
    /\ dbKeys = {}
    /\ disk = [n \in NS |-> AbsentFile]
    /\ saveFails = 0
    /\ last = NoCall
    /\ RouterIdle
    /\ UtilIdle

Next ==
    \/ ProbeResolve
    \/ RouterCall
    \/ \E c \in DOMAIN calls : ChromaSucceed(c)
    \/ \E c \in DOMAIN calls : ChromaFail(c)
    \/ \E c \in DOMAIN calls : MemResume(c)

Spec == Init /\ [][Next]_vars

\* ================================================================ chunkText calls
\* the call chunkText(text, chunkSize, chunkOverlap) up to the loop
StartChunk(caller, text, chunkSize, chunkOverlap) ==
    chunker' = [ChunkerIdle EXCEPT !.caller = caller, !.text = text,
                                   !.chunkSize = chunkSize,
                                   !.chunkOverlap = chunkOverlap, !.pc = "loop"]

\* chunkText called on its own
DirectChunk ==
    /\ chunker.pc = "idle"
    /\ \E n \in 0..MaxTextLen, chunkSize \in 0..MaxSize, chunkOverlap \in 0..(MaxSize + 1) :
          StartChunk("direct", TextOf(n), chunkSize, chunkOverlap)
    /\ UNCHANGED <<storeVars, last, routerVars, http, mapperVars, narr>>

\* IngestSchema: chunkSize int in 50..4000, chunkOverlap int in 0..400, each
\* optional with a default; the text of a document has at least one character
MinChunkSize == 50
MaxChunkSize == 4000
MinChunkOverlap == 0
MaxChunkOverlap == 400

Absent == [given |-> FALSE, v |-> 0]
Given(v) == [given |-> TRUE, v |-> v]

IngestBodies ==
    [chunkSize : {Absent} \cup {Given(v) : v \in {MinChunkSize - 1, MinChunkSize,
                                                 MaxChunkSize, MaxChunkSize + 1}},
     chunkOverlap : {Absent} \cup {Given(v) : v \in {MinChunkOverlap - 1, MinChunkOverlap,
                                                    MinChunkSize - 1, MinChunkSize,
                                                    MaxChunkOverlap, MaxChunkOverlap + 1}},
     textLen : {0, 1, MinChunkSize + 1, MinChunkSize + MaxTextLen}]

IngestSchemaOk(body) ==
    /\ body.chunkSize.given =>
          (body.chunkSize.v >= MinChunkSize /\ body.chunkSize.v <= MaxChunkSize)
    /\ body.chunkOverlap.given =>
          (body.chunkOverlap.v >= MinChunkOverlap /\ body.chunkOverlap.v <= MaxChunkOverlap)
    /\ body.textLen >= 1

ParsedChunkSize(body) ==
    IF body.chunkSize.given THEN body.chunkSize.v ELSE DefaultChunkSize

ParsedChunkOverlap(body) ==
    IF body.chunkOverlap.given THEN body.chunkOverlap.v ELSE DefaultChunkOverlap

\* POST /ingest with one text document, up to its chunkText call: a body
\* that fails IngestSchema.parse is answered 400 from the catch block
IngestPost ==
    /\ chunker.pc = "idle"
    /\ \E body \in IngestBodies :
          IF IngestSchemaOk(body)
          THEN StartChunk("ingest", TextOf(body.textLen),
                          ParsedChunkSize(body), ParsedChunkOverlap(body))
          ELSE chunker' = [ChunkerIdle EXCEPT !.caller = "ingest", !.status = 400]
    /\ UNCHANGED <<storeVars, last, routerVars, http, mapperVars, narr>>

\* the chunkText calls with literal parameters: /load-qc (1200, 200), the
\* record batches of /trigger-load and /load-combined-db (1500, 200), the
\* schema documentation (2000, 300); their texts have 50 or 100 characters
\* at least
FixedCalls ==
    {[caller |-> "load-qc", chunkSize |-> 1200, chunkOverlap |-> 200],
     [caller |-> "batch", chunkSize |-> 1500, chunkOverlap |-> 200],
     [caller |-> "schema-doc", chunkSize |-> 2000, chunkOverlap |-> 300]}

FixedChunk ==
    /\ chunker.pc = "idle"
    /\ \E f \in FixedCalls, n \in {100, 101} :
          StartChunk(f.caller, TextOf(n), f.chunkSize, f.chunkOverlap)
    /\ UNCHANGED <<storeVars, last, routerVars, http, mapperVars, narr>>

\* One turn of `while (i < text.length)`, or the loop's exit. A call that
\* keeps looping is followed for MaxSpin chunks beyond the text's length.
ChunkStep ==
    /\ chunker.pc = "loop"
    /\ Len(chunker.chunks) < Len(chunker.text) + MaxSpin
    /\ LET text == chunker.text
           i == chunker.i
           end == ChunkEnd(Len(text), i, chunker.chunkSize)
       IN  IF i < Len(text)
           THEN chunker' = [chunker EXCEPT
                              !.chunks = Append(@, slice(text, i, end)),
                              !.offs = Append(@, i),
                              !.i = IF end = Len(text) THEN i
                                    ELSE NextOffset(end, chunker.chunkOverlap),
                              !.pc = IF end = Len(text) THEN "done" ELSE "loop"]
           ELSE chunker' = [chunker EXCEPT !.pc = "done"]
    /\ UNCHANGED <<storeVars, last, routerVars, http, mapperVars, narr>>

\* return chunks
ChunkReturn ==
    /\ chunker.pc = "done"
    /\ chunker' = ChunkerIdle
    /\ UNCHANGED <<storeVars, last, routerVars, http, mapperVars, narr>>

ChunkNext == DirectChunk \/ IngestPost \/ FixedChunk \/ ChunkStep \/ ChunkReturn

\* the loop is synchronous code: it keeps taking turns
ChunkSpec == Init /\ [][ChunkNext]_vars /\ WF_vars(ChunkStep)

\* ================================================================ schema mapper calls
\* await schemaMapper.loadSchema(jsonData): the body has no await in it
LoadSchema ==
    /\ mcall.op = "none"
    /\ narr.pc = "idle"
    /\ Len(loads) < MaxLoads
    /\ \E d \in DocNames :
          /\ schemaMap' = AssignSchemaMap(schemaMap, loadSchema(SchemaDocs[d]))
          /\ loads' = Append(loads, d)
    /\ UNCHANGED <<storeVars, last, routerVars, http, chunker, mcall, narr>>

GetRelatedTablesCall ==
    /\ mcall.op = "none"
    /\ \E t \in ReadTables :
          mcall' = [NoMapperCall EXCEPT !.op = "getRelatedTables", !.table = t,
                                        !.related = getRelatedTables(schemaMap, t)]
    /\ UNCHANGED <<storeVars, last, routerVars, http, chunker, schemaMap, loads, narr>>

ResolveReferenceCall ==
    /\ mcall.op = "none"
    /\ \E t \in ReadTables, c \in ReadColumns, v \in ReadValues :
          mcall' = [NoMapperCall EXCEPT !.op = "resolveReference", !.table = t,
                                        !.column = c, !.value = v,
                                        !.ref = resolveReference(schemaMap, t, c, v)]
    /\ UNCHANGED <<storeVars, last, routerVars, http, chunker, schemaMap, loads, narr>>

GetTablesByCategoryCall ==
    /\ mcall.op = "none"
    /\ \E cat \in Categories :
          mcall' = [NoMapperCall EXCEPT !.op = "getTablesByCategory", !.category = cat,
                                        !.names = getTablesByCategory(schemaMap, cat)]
    /\ UNCHANGED <<storeVars, last, routerVars, http, chunker, schemaMap, loads, narr>>

GenerateSchemaDocumentationCall ==
    /\ mcall.op = "none"
    /\ mcall' = [NoMapperCall EXCEPT !.op = "generateSchemaDocumentation",
                                     !.doc = generateSchemaDocumentation(schemaMap)]
    /\ UNCHANGED <<storeVars, last, routerVars, http, chunker, schemaMap, loads, narr>>

\* the caller takes the result and moves on
MapperReturn ==
    /\ mcall.op # "none"
    /\ mcall' = NoMapperCall
    /\ UNCHANGED <<storeVars, last, routerVars, http, chunker, schemaMap, loads, narr>>

MapperNext ==
    \/ LoadSchema
    \/ GetRelatedTablesCall
    \/ ResolveReferenceCall
    \/ GetTablesByCategoryCall
    \/ GenerateSchemaDocumentationCall
    \/ MapperReturn

MapperSpec == Init /\ [][MapperNext]_vars

\* ================================================================ narration calls
Top == narr.stack[Len(narr.stack)]
Pop(stack) == SubSeq(stack, 1, Len(stack) - 1)

\* the activation at the top of the stack has returned
Popped(n) ==
    [n EXCEPT !.stack = Pop(@), !.pc = IF Len(n.stack) = 1 THEN "done" ELSE "run"]

\* the rows of the loaded tables, each with the name of its table
NarrInputs ==
    UNION {LET rows == schemaMap.tables[t].sample_rows \o schemaMap.tables[t].recursive_rows
           IN  {[tableName |-> schemaMap.tables[t].name, record |-> rows[i]] : i \in DOMAIN rows}
           : t \in DOMAIN schemaMap.tables}

\* buildRelationshipNarrative(record, tableName, 0, maxDepth), as
\* convertToText calls it, with a new visited set
NarrStart ==
    /\ narr.pc = "idle"
    /\ mcall.op = "none"
    /\ \E inp \in NarrInputs, maxDepth \in 0..MaxDepth :
          narr' = [NarrIdle EXCEPT !.pc = "run", !.record = inp.record,
                                   !.tableName = inp.tableName, !.maxDepth = maxDepth,
                                   !.stack = <<Frame(inp.record, inp.tableName, 0)>>]
    /\ UNCHANGED <<storeVars, last, routerVars, http, chunker, mapperVars>>

\* the entry of an activation: the depth test, the visited test,
\* visited.add(recordKey) and the call of getRelatedTables
NarrEnter ==
    /\ narr.pc = "run"
    /\ Top.pc = "entry"
    /\ LET key == recordKey(Top.tableName, Top.record)
       IN  IF DepthReached(Top.depth, narr.maxDepth) \/ HasVisited(narr.visited, key)
           THEN narr' = Popped(narr)
           ELSE narr' = [narr EXCEPT
                           !.visited = @ \cup {key},
                           !.stack[Len(narr.stack)] =
                               [@ EXCEPT !.pc = "loop",
                                         !.relatedTables = getRelatedTables(schemaMap, Top.tableName)],
                           !.trace = Append(@, [kind |-> "expand", tableName |-> Top.tableName,
                                                record |-> Top.record, depth |-> Top.depth,
                                                shown |-> FALSE])]
    /\ UNCHANGED <<storeVars, last, routerVars, http, chunker, mapperVars>>

\* what one turn of the loop does with the reference it resolved: push the
\* narrative and call buildRelationshipNarrative on the referenced record,
\* or nothing when the narrative is null
Narrated(n, relation, referencedRecord, narrative) ==
    LET depth == n.stack[Len(n.stack)].depth
        resolved == [kind |-> "resolved", tableName |-> relation.table,
                     record |-> referencedRecord, depth |-> depth,
                     shown |-> narrative.shown]
    IN  IF narrative.shown
        THEN [n EXCEPT !.narratives = Append(@, narrative.text),
                       !.stack = Append(@, Frame(referencedRecord, relation.table, depth + 1)),
                       !.trace = Append(@, resolved)]
        ELSE [n EXCEPT !.trace = Append(@, resolved)]

\* one turn of `for (const relation of relatedTables)` in the activation at
\* the top of the stack, up to the recursive call if it makes one; each of
\* relation, value, referencedRecord and narrative is computed once
NarrRelation ==
    /\ narr.pc = "run"
    /\ Top.pc = "loop"
    /\ Top.rel <= Len(Top.relatedTables)
    /\ \E relation \in {Top.relatedTables[Top.rel]} :
       \E value \in {Field(Top.record, relation.via)} :
       \E referencedRecord \in {resolveReference(schemaMap, Top.tableName, relation.via, value)} :
          LET moved == [narr EXCEPT !.stack[Len(narr.stack)].rel = @ + 1]
          IN  IF relation.type = "foreign_key" /\ Truthy(value) /\ referencedRecord.found
              THEN \E narrative \in {createHumanReadableReference(
                                         relation.table, referencedRecord.record, relation.via)} :
                      narr' = Narrated(moved, relation, referencedRecord.record, narrative)
              ELSE narr' = moved
    /\ UNCHANGED <<storeVars, last, routerVars, http, chunker, mapperVars>>

\* the loop is over: return narratives
NarrExit ==
    /\ narr.pc = "run"
    /\ Top.pc = "loop"
    /\ Top.rel > Len(Top.relatedTables)
    /\ narr' = Popped(narr)
    /\ UNCHANGED <<storeVars, last, routerVars, http, chunker, mapperVars>>

\* convertToText takes the narratives and moves on
NarrReturn ==
    /\ narr.pc = "done"
    /\ narr' = NarrIdle
    /\ UNCHANGED <<storeVars, last, routerVars, http, chunker, mapperVars>>

NarrNext == LoadSchema \/ NarrStart \/ NarrEnter \/ NarrRelation \/ NarrExit \/ NarrReturn

\* buildRelationshipNarrative is synchronous code: it keeps taking steps
NarrSpec == Init /\ [][NarrNext]_vars /\ WF_vars(NarrEnter \/ NarrRelation \/ NarrExit)

\* loadSchema and the reads of the mapper made by handlers side by side:
\* direct reads between narrations, and the reads each narration makes
SchemaNext ==
    \/ NarrNext
    \/ narr.pc = "idle" /\ GetRelatedTablesCall
    \/ narr.pc = "idle" /\ ResolveReferenceCall
    \/ narr.pc = "idle" /\ MapperReturn

SchemaSpec == Init /\ [][SchemaNext]_vars

\* ================================================================ HTTP routes
\* POST /ingest and POST /query of the built server (dist/routes): the ingest
\* route calls the in-memory store, the query route calls the router.

\* the vector of a text: a chunk is named by its id, a prompt by its text
EmbedOf(text) ==
    IF text \in {"x", "p"} THEN <<1, 0>>
    ELSE IF text = "y" THEN <<1, 1>>
    ELSE <<2, 0>>

\* embeddings.embedMany(texts) when it resolves: one vector per text, in the
\* order of the texts
embedMany(texts) == [i \in 1..Len(texts) |-> EmbedOf(texts[i])]

\* the prompts of the queries
Prompts == {"p"}

\* QuerySchema: topK int in 1..50, optional, 5 by default
DefaultTopK == 5

\* one request: pc is the await its handler stands at (embed, upsert, stats,
\* query) or done; seen holds the requests answered before it came. For
\* POST /ingest/trigger-load, i is the offset of the batch in hand
NewRequest(route, ns) ==
    [route |-> route, ns |-> ns, pc |-> "embed", chunks |-> <<>>, vectors |-> <<>>,
     call |-> 0, status |-> "none", storageType |-> "", recs |-> <<>>, seen |-> {},
     i |-> 0]

Answered == {r \in DOMAIN http : http[r].pc = "done"}

\* ids are `${doc.id ?? "doc"}-${Math.random().toString(36).slice(2)}`: an
\* id no chunk of the namespace has yet
UsedIds(ns) ==
    {StoredList(Store, ns)[i].id : i \in DOMAIN StoredList(Store, ns)}
    \cup UNION {{http[r].chunks[i] : i \in DOMAIN http[r].chunks} :
                  r \in {x \in DOMAIN http : http[x].ns = ns}}

\* the ids in the order new ones are taken
IdOrder == <<"x", "y", "z">>

\* the first n of the ids that are not in use
FreshIds(used, n) ==
    LET free == SelectSeq(IdOrder, LAMBDA id : id \notin used)
    IN  SubSeq(free, 1, Min(n, Len(free)))

\* allChunks of a request: the chunks of its documents, by their ids; none
\* when every document is blank
ChunkLists(ns) == {FreshIds(UsedIds(ns), n) : n \in 0..MaxBatch}

\* every chunk stored with the first vector
IngestRecords_FirstVector(req) ==
    [i \in 1..Len(req.chunks) |->
        [id |-> req.chunks[i], ns |-> req.ns, emb |-> req.vectors[1]]]

\* allChunks.map((d, i) => ({id: d.id, ..., embedding: vectors[i], namespace}))
IngestRecords(req) ==
    [i \in 1..Len(req.chunks) |->
        [id |-> req.chunks[i], ns |-> req.ns, emb |-> req.vectors[i]]]

\* getActiveStorageType()
getActiveStorageType(active) == IF active = "chroma" THEN "ChromaDB" ELSE "In-Memory"

\* POST /ingest up to `await embeddings.embedMany(texts)`
IngestReceive ==
    /\ Len(http) < MaxReqs
    /\ \E ns \in NS :
          \E chunks \in ChunkLists(ns) :
             http' = Append(http, [NewRequest("ingest", ns) EXCEPT
                                      !.chunks = chunks, !.seen = Answered])
    /\ UNCHANGED <<storeVars, last, routerVars, chunker, mapperVars, narr>>

\* embedMany resolves; vectorStore.upsert(records) is called on the
\* in-memory store and runs to its end; the handler awaits its promise
IngestEmbedded(r) ==
    /\ http[r].route = "ingest"
    /\ http[r].pc = "embed"
    /\ \E vectors \in {embedMany(http[r].chunks)} :
       \E req \in {[http[r] EXCEPT !.vectors = vectors]} :
       \E w \in WriteChoices(mirrored, MaxSaveFail - saveFails) :
       \E st \in {upsert(Store, IngestRecords(req), w)} :
          /\ db' = st.db
          /\ dbKeys' = st.keys
          /\ disk' = st.disk
          /\ saveFails' = IF w = "ok" \/ req.chunks = <<>> THEN saveFails ELSE saveFails + 1
          /\ http' = [http EXCEPT ![r] = [req EXCEPT !.pc = "upsert"]]
    /\ UNCHANGED <<mirrored, last, routerVars, chunker, mapperVars, narr>>

\* embedMany rejects: the catch block answers 400 {ok: false}
IngestEmbedFail(r) ==
    /\ http[r].route = "ingest"
    /\ http[r].pc = "embed"
    /\ http' = [http EXCEPT ![r].pc = "done", ![r].status = "error"]
    /\ UNCHANGED <<storeVars, last, routerVars, chunker, mapperVars, narr>>

\* the await of upsert resumes; adaptiveVectorStore.getStats(namespace) is
\* called and awaited (it swallows the errors of ChromaDB)
IngestUpserted(r) ==
    /\ http[r].route = "ingest"
    /\ http[r].pc = "upsert"
    /\ http' = [http EXCEPT ![r].pc = "stats"]
    /\ UNCHANGED <<storeVars, last, routerVars, chunker, mapperVars, narr>>

\* the await of getStats resumes: storageType is read and
\* res.json({ok: true, chunksAdded, namespace, storageType, stats}) is sent
IngestRespond(r) ==
    /\ http[r].route = "ingest"
    /\ http[r].pc = "stats"
    /\ http' = [http EXCEPT ![r].pc = "done", ![r].status = "ok",
                            ![r].storageType = getActiveStorageType(activeStore)]
    /\ UNCHANGED <<storeVars, last, routerVars, chunker, mapperVars, narr>>

\* POST /query up to `await embeddings.embedMany([prompt])`
QueryReceive ==
    /\ Len(http) < MaxReqs
    /\ \E ns \in NS :
          http' = Append(http, [NewRequest("query", ns) EXCEPT !.seen = Answered])
    /\ UNCHANGED <<storeVars, last, routerVars, chunker, mapperVars, narr>>

\* embedMany resolves with qVec; adaptiveVectorStore.query({namespace: ns,
\* embedding: qVec, topK}) is called and awaited
QueryEmbedded(r) ==
    /\ http[r].route = "query"
    /\ http[r].pc = "embed"
    /\ \E prompt \in Prompts :
       \E qVec \in {embedMany(<<prompt>>)[1]} :
          Invoke([kind |-> "query", batch |-> <<>>,
                  q |-> [namespace |-> http[r].ns, embedding |-> qVec,
                         defined |-> TRUE, topK |-> DefaultTopK]])
    /\ http' = [http EXCEPT ![r].pc = "query", ![r].call = Len(calls) + 1]
    /\ UNCHANGED <<last, chromaDb, activeStore, isChromaAvailable, probe, everDowngraded,
                   chunker, mapperVars, narr>>

\* embedMany rejects: the catch block answers with the error
QueryEmbedFail(r) ==
    /\ http[r].route = "query"
    /\ http[r].pc = "embed"
    /\ http' = [http EXCEPT ![r].pc = "done", ![r].status = "error"]
    /\ UNCHANGED <<storeVars, last, routerVars, chunker, mapperVars, narr>>

\* the await of adaptiveVectorStore.query resumes with the results, or the
\* error of the router is caught
QueryRetrieved(r) ==
    /\ http[r].route = "query"
    /\ http[r].pc = "query"
    /\ calls[http[r].call].pc = "done"
    /\ http' = [http EXCEPT ![r].pc = "done",
                            ![r].status = IF calls[http[r].call].outcome = "ok"
                                          THEN "ok" ELSE "error",
                            ![r].recs = calls[http[r].call].recs]
    /\ UNCHANGED <<storeVars, last, routerVars, chunker, mapperVars, narr>>

RouteNext ==
    \/ ProbeResolve
    \/ IngestReceive
    \/ \E r \in DOMAIN http : IngestEmbedded(r)
    \/ \E r \in DOMAIN http : IngestEmbedFail(r)
    \/ \E r \in DOMAIN http : IngestUpserted(r)
    \/ \E r \in DOMAIN http : IngestRespond(r)
    \/ QueryReceive
    \/ \E r \in DOMAIN http : QueryEmbedded(r)
    \/ \E r \in DOMAIN http : QueryEmbedFail(r)
    \/ \E r \in DOMAIN http : QueryRetrieved(r)
    \/ \E c \in DOMAIN calls : ChromaSucceed(c)
    \/ \E c \in DOMAIN calls : ChromaFail(c)
    \/ \E c \in DOMAIN calls : MemResume(c)

RouteSpec == Init /\ [][RouteNext]_vars

\* ================================================================ POST /ingest/trigger-load
\* the server with the disk-mirrored store; "A" stands for qc_inspections
QcNamespace == "A"

\* const batchSize = 20
batchSize == 20

\* the chunks made from the data file, by their ids
\* `qc-${tableName}-${record.id}`: the file as it is at one time and at another
DataFiles == {<<"qc1">>, <<"qc2", "qc1">>}

\* POST /ingest of this server: the await of upsert resumes and
\* res.json({ok: true, chunksAdded, namespace, storageType: "In-Memory"}) is sent
IngestAnswered(r) ==
    /\ http[r].route = "ingest"
    /\ http[r].pc = "upsert"
    /\ http' = [http EXCEPT ![r].pc = "done", ![r].status = "ok",
                            ![r].storageType = "In-Memory"]
    /\ UNCHANGED <<storeVars, last, routerVars, chunker, mapperVars, narr>>

\* the ids of the records of a list
IdsOf(list) == {list[k].id : k \in DOMAIN list}

\* allChunks.slice(i, i + batchSize)
BatchAt(chunks, i) == SubSeq(chunks, i + 1, Min(i + batchSize, Len(chunks)))

\* the handler up to its first await: the data file is read, the file of
\* the namespace is unlinked, allChunks is built; with no chunk the loop is
\* skipped and the response is sent
TriggerReceive ==
    /\ Len(http) < MaxReqs
    /\ \E chunks \in DataFiles :
          http' = Append(http, [NewRequest("trigger", QcNamespace) EXCEPT
                                   !.chunks = chunks, !.seen = Answered])
    /\ disk' = [disk EXCEPT ![QcNamespace] = AbsentFile]
    /\ UNCHANGED <<mirrored, db, dbKeys, saveFails, last, routerVars, chunker, mapperVars, narr>>

\* embedMany resolves for the batch in hand; vectorStore.upsert(batch) is
\* called, runs to its end, and is awaited
TriggerEmbedded(r) ==
    /\ http[r].route = "trigger"
    /\ http[r].pc = "embed"
    /\ \E batch \in {BatchAt(http[r].chunks, http[r].i)} :
       \E req \in {[http[r] EXCEPT !.chunks = batch, !.vectors = embedMany(batch)]} :
       \E w \in WriteChoices(mirrored, MaxSaveFail - saveFails) :
       \E st \in {upsert(Store, IngestRecords(req), w)} :
          /\ db' = st.db
          /\ dbKeys' = st.keys
          /\ disk' = st.disk
          /\ saveFails' = IF w = "ok" THEN saveFails ELSE saveFails + 1
    /\ http' = [http EXCEPT ![r].pc = "upsert"]
    /\ UNCHANGED <<mirrored, last, routerVars, chunker, mapperVars, narr>>

\* embedMany rejects: the catch block answers 500 {ok: false}
TriggerEmbedFail(r) ==
    /\ http[r].route = "trigger"
    /\ http[r].pc = "embed"
    /\ http' = [http EXCEPT ![r].pc = "done", ![r].status = "error"]
    /\ UNCHANGED <<storeVars, last, routerVars, chunker, mapperVars, narr>>

\* the await of upsert resumes: the next batch is embedded, or after the
\* last batch res.json({ok: true, ..., storageType: "In-Memory"}) is sent
TriggerUpserted(r) ==
    /\ http[r].route = "trigger"
    /\ http[r].pc = "upsert"
    /\ http' = IF http[r].i + batchSize < Len(http[r].chunks)
               THEN [http EXCEPT ![r].pc = "embed", ![r].i = @ + batchSize]
               ELSE [http EXCEPT ![r].pc = "done", ![r].status = "ok",
                                 ![r].storageType = "In-Memory"]
    /\ UNCHANGED <<storeVars, last, routerVars, chunker, mapperVars, narr>>

TriggerInit == StoreInit /\ mirrored

TriggerNext ==
    \/ IngestReceive
    \/ \E r \in DOMAIN http : IngestEmbedded(r)
    \/ \E r \in DOMAIN http : IngestEmbedFail(r)
    \/ \E r \in DOMAIN http : IngestAnswered(r)
    \/ TriggerReceive
    \/ \E r \in DOMAIN http : TriggerEmbedded(r)
    \/ \E r \in DOMAIN http : TriggerEmbedFail(r)
    \/ \E r \in DOMAIN http : TriggerUpserted(r)

TriggerSpec == TriggerInit /\ [][TriggerNext]_vars

\* ================================================================ concurrent store calls
\* Handlers that run side by side call the volatile store itself
\* (routes/ingest.ts: await vectorStore.upsert, routes/query.ts: await
\* vectorStore.query); `calls` holds those calls here. Two batches that
\* collide on x, and a query that returns the whole list.
ConcBatches ==
    {<<[id |-> "y", ns |-> "A", emb |-> <<1, 1>>], [id |-> "x", ns |-> "A", emb |-> <<1, 0>>]>>,
     <<[id |-> "x", ns |-> "A", emb |-> <<2, 0>>], [id |-> "z", ns |-> "A", emb |-> <<1, 0>>]>>}

ConcQueries == {[namespace |-> "A", embedding |-> <<1, 0>>, defined |-> TRUE, topK |-> MaxTopK]}

ConcInputs ==
    {[kind |-> "upsert", batch |-> b, q |-> NoQuery] : b \in ConcBatches}
    \cup {[kind |-> "query", batch |-> <<>>, q |-> q] : q \in ConcQueries}

StoreCall(kind, batch, q) ==
    [kind |-> kind, batch |-> batch, q |-> q,
     pc |-> "loop",     \* loop (inside the method body), await (the caller's await), done
     at |-> 0,          \* records of the batch the loop of upsert has taken
     pend |-> NoResult] \* what the method settled with

\* a loop of upsert that lets other callbacks run after every record
UpsertRun_OneRecord(records, at) == Min(1, Len(records) - at)

\* The records the loop of upsert takes before another callback can run:
\* the body has no await, so all that are left.
UpsertRun(records, at) == Len(records) - at

\* the loop of upsert running from where it stands to its next suspension
LoopRun(call, w) ==
    LET n == UpsertRun(call.batch, call.at)
        part == SubSeq(call.batch, call.at + 1, call.at + n)
    IN  [st |-> upsert(Store, part, w),
         call |-> [call EXCEPT !.at = @ + n,
                               !.pc = IF call.at + n >= Len(call.batch) THEN "await" ELSE "loop"]]

RunLoop(run, w) ==
    /\ db' = run.st.db
    /\ dbKeys' = run.st.keys
    /\ disk' = run.st.disk
    /\ saveFails' = IF w = "ok" THEN saveFails ELSE saveFails + 1
    /\ UNCHANGED mirrored

\* a handler calls vectorStore.upsert(records) or vectorStore.query(input):
\* the method body runs up to its first suspension inside the call
ConcCall ==
    /\ Len(calls) < MaxCalls
    /\ \E inp \in ConcInputs :
          LET call == StoreCall(inp.kind, inp.batch, inp.q)
          IN  IF inp.kind = "upsert"
              THEN \E w \in WriteChoices(mirrored, MaxSaveFail - saveFails) :
                     \E run \in {LoopRun(call, w)} :
                        /\ RunLoop(run, w)
                        /\ calls' = Append(calls, run.call)
              ELSE /\ calls' = Append(calls, [call EXCEPT !.pc = "await",
                                                          !.pend = query(Store, inp.q)])
                   /\ UNCHANGED storeVars
    /\ UNCHANGED <<last, chromaDb, activeStore, isChromaAvailable, probe, everDowngraded, utilVars>>

\* a suspended call is resumed: the loop goes on, or the caller's await
\* returns what the method settled with
ConcResume(c) ==
    /\ InFlight(c)
    /\ IF calls[c].pc = "loop"
       THEN \E w \in WriteChoices(mirrored, MaxSaveFail - saveFails) :
              \E run \in {LoopRun(calls[c], w)} :
                 /\ RunLoop(run, w)
                 /\ calls' = [calls EXCEPT ![c] = run.call]
       ELSE /\ calls' = [calls EXCEPT ![c].pc = "done"]
            /\ UNCHANGED storeVars
    /\ UNCHANGED <<last, chromaDb, activeStore, isChromaAvailable, probe, everDowngraded, utilVars>>

\* a fresh process of either build, with no file left by an earlier one
ConcInit ==
    /\ StoreInit
    /\ \A n \in NS : disk[n] = AbsentFile

ConcNext == ConcCall \/ \E c \in DOMAIN calls : ConcResume(c)

ConcSpec == ConcInit /\ [][ConcNext]_vars

\* ================================================================ claims
Range(s) == {s[i] : i \in DOMAIN s}

UniqueIds(list) ==
    \A i, j \in DOMAIN list : i # j => list[i].id # list[j].id

Stored(n) == StoredList(Store, n)

BatchNs(batch) == {batch[i].ns : i \in DOMAIN batch}

DirectUpsertStep == last.op = "none" /\ last'.op = "upsert"

\* Every record of last' batch that goes to namespace n replaces a record
\* that n already held.
AllReupserts(n) ==
    \A i \in DOMAIN last'.batch :
        last'.batch[i].ns = n => \E k \in DOMAIN Stored(n) : Stored(n)[k].id = last'.batch[i].id

\* C6: every namespace holds at most one record per id after any sequence of
\* upserts, and an upsert that only re-upserts ids a namespace already
\* holds leaves the number of records of that namespace unchanged.
C6_IdUniqueness ==
    /\ [](\A n \in NS : UniqueIds(db[n]) /\ UniqueIds(Stored(n)))
    /\ [][DirectUpsertStep =>
            \A n \in NS : AllReupserts(n) => Len(Stored(n)') = Len(Stored(n))]_vars

\* a batch that repeats an id went into a namespace that holds two records
C6_Witness ==
    /\ last.op = "upsert"
    /\ Len(last.batch) = 2
    /\ last.batch[1].id = last.batch[2].id
    /\ last.batch[1].ns = last.batch[2].ns
    /\ last.batch[1].emb # last.batch[2].emb
    /\ Len(db[last.batch[1].ns]) = 2

\* ---------------------------------------------------------------- C7
IsZero(e) == \A i \in DOMAIN e : e[i] = 0

SelfQuery(r, k) ==
    query(Store, [namespace |-> r.ns, embedding |-> r.emb, defined |-> TRUE, topK |-> k])

\* position of the record with id in list (ids are unique), 0 if none
PosOf(list, id) == findIndex(list, id)

QScore(r) == cosine(r.emb, last.q.embedding)

\* a is ranked before b: a higher score, or the same score and stored earlier
RankedBefore(list, a, b) ==
    \/ ScoreGT(QScore(a), QScore(b))
    \/ ScoreEQ(QScore(a), QScore(b)) /\ PosOf(list, a.id) < PosOf(list, b.id)

\* C8: a query that returns gives exactly min(topK, number of records the
\* namespace holds) records (none for an absent namespace), the highest
\* scoring ones, in descending order of similarity, records of equal score
\* in storage order.
C8_TopKRanking ==
    (last.op = "query" /\ last.outcome = "ok") =>
        LET list == Stored(last.q.namespace)
            recs == last.recs
        IN  /\ Len(recs) = Min(last.q.topK, Len(list))
            /\ \A i \in DOMAIN recs : recs[i] \in Range(list)
            /\ \A i, j \in DOMAIN recs : i < j => RankedBefore(list, recs[i], recs[j])
            /\ \A r \in Range(list) \ Range(recs) :
                 \A i \in DOMAIN recs : RankedBefore(list, recs[i], r)

\* a query with topK = 2 over three records, two of which tie above the
\* third
C8_Witness ==
    /\ last.op = "query"
    /\ last.outcome = "ok"
    /\ last.q.topK = 2
    /\ Len(Stored(last.q.namespace)) = 3
    /\ Len(last.recs) = 2
    /\ ScoreEQ(QScore(last.recs[1]), QScore(last.recs[2]))
    /\ \E r \in Range(Stored(last.q.namespace)) : ScoreGT(QScore(last.recs[2]), QScore(r))

\* ---------------------------------------------------------------- C9
\* C9: an upsert leaves every namespace that none of its records names
\* unchanged (list, key and file), every stored record sits in the list of
\* its own namespace, and a query returns only records of the queried
\* namespace.
C9_NamespaceIsolation ==
    /\ [](\A n \in NS : \A i \in DOMAIN Stored(n) : Stored(n)[i].ns = n)
    /\ []((last.op = "query") => \A i \in DOMAIN last.recs : last.recs[i].ns = last.q.namespace)
    /\ [][DirectUpsertStep =>
            \A n \in NS \ BatchNs(last'.batch) :
                /\ db'[n] = db[n]
                /\ (n \in dbKeys') = (n \in dbKeys)
                /\ disk'[n] = disk[n]
                /\ Stored(n)' = Stored(n)]_vars

\* an upsert of records of namespace A only, while namespace B holds a record
C9_Witness ==
    /\ last.op = "upsert"
    /\ last.batch # <<>>
    /\ BatchNs(last.batch) = {"A"}
    /\ db["B"] # <<>>
    /\ db["A"] # <<>>

\* ---------------------------------------------------------------- C10
\* the last record of the batch for its (namespace, id)
FinalInBatch(batch, i) ==
    \A j \in DOMAIN batch :
        j > i => ~(batch[j].ns = batch[i].ns /\ batch[j].id = batch[i].id)

FullQuery(n, e) ==
    query(Store, [namespace |-> n, embedding |-> e, defined |-> TRUE, topK |-> Len(Stored(n))])

\* C10: in the disk-mirrored build, an upsert whose mirror write fails still
\* completes, the record is in the in-process list of its namespace and a
\* following query on that namespace ranks it; a namespace whose file
\* cannot be read or parsed is served as the empty list, without an error.
C10_MirrorFailuresSwallowed ==
    /\ (mirrored /\ last.op = "upsert") =>
          \A i \in DOMAIN last.batch :
              (last.w # "ok" /\ FinalInBatch(last.batch, i)) =>
                  LET r == last.batch[i]
                  IN  /\ last.outcome = "ok"
                      /\ r.ns \in dbKeys
                      /\ r \in Range(db[r.ns])
                      /\ \A e \in Embs :
                           LET res == FullQuery(r.ns, e)
                           IN  res.outcome = "ok" /\ r \in Range(res.recs)
    /\ \A n \in NS :
          (mirrored /\ n \notin dbKeys /\ disk[n].kind = "corrupt") =>
              /\ loadNamespace(mirrored, disk, n) = <<>>
              /\ \A q \in QueryInputs :
                   q.namespace = n => query(Store, q) = [outcome |-> "ok", recs |-> <<>>]
    /\ (last.op = "query" /\ mirrored /\ last.q.namespace \notin dbKeys
            /\ disk[last.q.namespace].kind = "corrupt") =>
          (last.outcome = "ok" /\ last.recs = <<>>)

\* the mirror writes of an upsert into A failed, with the file of B
\* unreadable and B not loaded
C10_Witness ==
    /\ mirrored
    /\ last.op = "upsert"
    /\ last.w # "ok"
    /\ Len(last.batch) = 2
    /\ BatchNs(last.batch) = {"A"}
    /\ disk["A"].kind # "list" \/ disk["A"].list # db["A"]
    /\ "B" \notin dbKeys
    /\ disk["B"].kind = "corrupt"

\* ---------------------------------------------------------------- C22
\* the records of the batch that go to (n, id)
BatchHits(batch, n, id) == {i \in DOMAIN batch : batch[i].ns = n /\ batch[i].id = id}

\* what position p of namespace n holds after the batch: the last record of
\* the batch for the id held there, or the record held there before
Overwritten(batch, n, held) ==
    LET hits == BatchHits(batch, n, held.id)
    IN  IF hits = {} THEN held ELSE batch[CHOOSE i \in hits : \A j \in hits : j <= i]

\* C22: an upsert leaves every record a namespace held at its position; a
\* record whose id the batch names again becomes the record of the batch (the
\* last one of the batch for that id), every other record stays as it was;
\* the records behind them are those of the new ids, one per id, each the
\* last record of the batch for its id.
C22_OverwriteInPlace ==
    [][DirectUpsertStep =>
        \A n \in NS :
            /\ Len(Stored(n)') >= Len(Stored(n))
            /\ \A p \in DOMAIN Stored(n) :
                  Stored(n)'[p] = Overwritten(last'.batch, n, Stored(n)[p])
            /\ \A p \in DOMAIN Stored(n)' :
                  p > Len(Stored(n)) =>
                      /\ BatchHits(last'.batch, n, Stored(n)'[p].id) # {}
                      /\ \A k \in DOMAIN Stored(n) : Stored(n)[k].id # Stored(n)'[p].id
                      /\ Stored(n)'[p] = Overwritten(last'.batch, n, Stored(n)'[p])
            /\ UniqueIds(Stored(n)')]_vars

\* a batch that names the same id twice, with different embeddings, went
\* into a namespace that held the id in front of another record: the first
\* position holds the second record of the batch
C22_Witness ==
    /\ last.op = "upsert"
    /\ Len(last.batch) = 2
    /\ last.batch[1].id = last.batch[2].id
    /\ last.batch[1].ns = last.batch[2].ns
    /\ last.batch[1].emb # last.batch[2].emb
    /\ Len(db[last.batch[1].ns]) = 3
    /\ db[last.batch[1].ns][1] = last.batch[2]

\* ================================================================ chunkText claims
\* size > 0 and 0 <= overlap < size
ValidChunkParams(ck) ==
    ck.chunkSize > 0 /\ ck.chunkOverlap >= 0 /\ ck.chunkOverlap < ck.chunkSize

\* the offset one past the last character of chunk k
EndOf(ck, k) == ck.offs[k] + Len(ck.chunks[k])

\* the chunks are the slices at their offsets, from offset 0 to the end of
\* the text, each starting no later than the end of the one before
Covers(ck) ==
    LET n == Len(ck.chunks)
    IN  /\ Len(ck.offs) = n
        /\ (n = 0) <=> (ck.text = <<>>)
        /\ \A k \in 1..n : ck.chunks[k] = slice(ck.text, ck.offs[k], EndOf(ck, k))
        /\ n > 0 => (ck.offs[1] = 0 /\ EndOf(ck, n) = Len(ck.text))
        /\ \A k \in 1..(n - 1) : ck.offs[k + 1] <= EndOf(ck, k)
        /\ \A pos \in 1..Len(ck.text) :
              \E k \in 1..n : ck.offs[k] < pos /\ pos <= EndOf(ck, k)

\* C11: with size > 0 and 0 <= overlap < size every chunkText call returns,
\* and the chunks it returns cover the text without a gap: the first starts
\* at offset 0, each later one starts no later than the end of the one
\* before, the last ends at text.length; an empty text gives no chunk.
C11_ChunksCoverText ==
    /\ []((chunker.pc = "done" /\ ValidChunkParams(chunker)) => Covers(chunker))
    /\ ((chunker.pc = "loop" /\ ValidChunkParams(chunker)) ~> (chunker.pc = "done"))

\* a call with an overlap has returned four chunks or more
C11_Witness ==
    /\ chunker.pc = "done"
    /\ ValidChunkParams(chunker)
    /\ chunker.chunkOverlap = 2
    /\ Len(chunker.chunks) >= 4
    /\ chunker.offs[2] < EndOf(chunker, 1)

\* ---------------------------------------------------------------- C12
\* the last n characters of a and the first n characters of b
LastChars(a, n) == SubSeq(a, Len(a) - n + 1, Len(a))
FirstChars(b, n) == SubSeq(b, 1, n)

\* C12: with size > 0 and 0 <= overlap < size, every returned chunk has at
\* most size characters, every chunk but the last exactly size, and each
\* chunk after the first starts at the end of the one before minus overlap,
\* so that the two share exactly overlap characters;
\* chunkText("abcdefghij", 4, 1) = ["abcd", "defg", "ghij"].
C12_ChunkLengthsAndOverlap ==
    (chunker.pc = "done" /\ ValidChunkParams(chunker)) =>
        LET n == Len(chunker.chunks)
        IN  /\ \A k \in 1..n : Len(chunker.chunks[k]) <= chunker.chunkSize
            /\ \A k \in 1..(n - 1) : Len(chunker.chunks[k]) = chunker.chunkSize
            /\ \A k \in 1..(n - 1) :
                  /\ chunker.offs[k + 1] = EndOf(chunker, k) - chunker.chunkOverlap
                  /\ Len(chunker.chunks[k + 1]) > chunker.chunkOverlap
                  /\ LastChars(chunker.chunks[k], chunker.chunkOverlap)
                        = FirstChars(chunker.chunks[k + 1], chunker.chunkOverlap)
            /\ (chunker.text = TextOf(10) /\ chunker.chunkSize = 4 /\ chunker.chunkOverlap = 1) =>
                  chunker.chunks = << <<"a", "b", "c", "d">>, <<"d", "e", "f", "g">>,
                                      <<"g", "h", "i", "j">> >>

\* chunkText("abcdefghij", 4, 1) has returned its three chunks
C12_Witness ==
    /\ chunker.pc = "done"
    /\ chunker.text = TextOf(10)
    /\ chunker.chunkSize = 4
    /\ chunker.chunkOverlap = 1
    /\ Len(chunker.chunks) = 3

\* ---------------------------------------------------------------- C13
\* a call in progress with overlap >= size
BadOverlap(ck) == ck.pc # "idle" /\ ck.chunkOverlap >= ck.chunkSize

\* once a chunk is pushed, no turn of the loop moves the offset forward
OffsetNeverGrows ==
    (BadOverlap(chunker) /\ Len(chunker.text) > chunker.chunkSize
        /\ chunker.chunks # <<>> /\ chunker'.pc # "idle") => chunker'.i <= chunker.i

\* with overlap >= size and text.length > size the loop never ends: the call
\* never returns, the loop condition stays true, the offset never grows
NeverReturns ==
    /\ []((BadOverlap(chunker) /\ Len(chunker.text) > chunker.chunkSize) =>
            (chunker.pc = "loop" /\ chunker.i < Len(chunker.text)))
    /\ [][OffsetNeverGrows]_vars

\* C13 as stated: non-termination for overlap >= size and text.length >
\* size, and a single chunk returned whenever text.length <= size.
C13_Original ==
    (BadOverlap(chunker) /\ Len(chunker.text) <= chunker.chunkSize /\ chunker.pc = "done") =>
        Len(chunker.chunks) = 1

\* C13 amended: with overlap >= size and text.length > size chunkText never
\* returns, the offset never growing after the first chunk; with
\* 0 < text.length <= size the call returns a single chunk, the whole
\* text, and with an empty text it returns no chunk.
C13_NoTerminationOnBadOverlap ==
    /\ NeverReturns
    /\ []((BadOverlap(chunker) /\ Len(chunker.text) <= chunker.chunkSize
            /\ chunker.pc = "done") =>
                chunker.chunks = (IF chunker.text = <<>> THEN <<>> ELSE <<chunker.text>>))
    /\ ((BadOverlap(chunker) /\ Len(chunker.text) <= chunker.chunkSize)
            ~> (chunker.pc = "done"))

\* a call with overlap >= size is still looping after pushing more chunks
\* than the text has characters
C13_Witness ==
    /\ BadOverlap(chunker)
    /\ chunker.chunkSize > 0
    /\ Len(chunker.text) > chunker.chunkSize
    /\ chunker.pc = "loop"
    /\ Len(chunker.chunks) = Len(chunker.text) + MaxSpin
    /\ chunker.i = 0

\* ---------------------------------------------------------------- C14
\* C14: every chunkText call made from an ingestion endpoint, in particular
\* for every body that passes the POST /ingest validation, has size > 0 and
\* 0 <= overlap < size.
C14_CallersConstrainChunker ==
    (chunker.caller \in {"ingest", "load-qc", "batch", "schema-doc"} /\ chunker.pc # "idle") =>
        ValidChunkParams(chunker)

\* ================================================================ schema mapper claims
\* the k-th smallest element of a set of numbers
KthSmallest(S, k) == CHOOSE i \in S : Cardinality({j \in S : j < i}) = k - 1

\* C15: on a loaded schema getRelatedTables(t) returns one foreign_key entry
\* for each edge with from_table = t, in declaration order, then one
\* referenced_by entry for each edge with to_table = t, in declaration
\* order, each with the edge's from_column; edges that touch t on neither
\* side give no entry.
C15_RelatedTables ==
    (mcall.op = "getRelatedTables" /\ schemaMap.loaded) =>
        LET E == schemaMap.relationships
            t == mcall.table
            res == mcall.related
            FK == {i \in DOMAIN E : E[i].from_table = t}
            RB == {i \in DOMAIN E : E[i].to_table = t}
            nFK == Cardinality(FK)
        IN  /\ Len(res) = nFK + Cardinality(RB)
            /\ \A k \in 1..nFK :
                  LET e == E[KthSmallest(FK, k)]
                  IN  res[k] = [table |-> e.to_table, via |-> e.from_column,
                                type |-> "foreign_key"]
            /\ \A k \in 1..Cardinality(RB) :
                  LET e == E[KthSmallest(RB, k)]
                  IN  res[nFK + k] = [table |-> e.from_table, via |-> e.from_column,
                                      type |-> "referenced_by"]

\* getRelatedTables("a") on the graph document: two foreign keys, two
\* referencing edges (one edge is both), and an edge that touches a on
\* neither side
C15_Witness ==
    /\ mcall.op = "getRelatedTables"
    /\ mcall.table = "a"
    /\ loads # <<>>
    /\ loads[Len(loads)] = "graph"
    /\ Len(mcall.related) = 4
    /\ mcall.related[2].type = "foreign_key"
    /\ mcall.related[3].type = "referenced_by"
    /\ \E i \in DOMAIN schemaMap.relationships :
          /\ schemaMap.relationships[i].from_table # "a"
          /\ schemaMap.relationships[i].to_table # "a"

\* ---------------------------------------------------------------- C16
\* the edges with (from_table, from_column) = (t, c)
MatchingEdges(sm, t, c) ==
    {i \in DOMAIN sm.relationships :
        sm.relationships[i].from_table = t /\ sm.relationships[i].from_column = c}

\* the first row, sample rows then recursive rows, of the target table of
\* edge e whose to_column is the value v
FirstMatchingRow(sm, e, v) ==
    LET t == {i \in DOMAIN sm.tables : sm.tables[i].name = e.to_table}
    IN  IF t = {} THEN NotFound
        ELSE LET table == sm.tables[CHOOSE i \in t : TRUE]
                 rows == table.sample_rows \o table.recursive_rows
                 hits == {i \in DOMAIN rows : Field(rows[i], e.to_column) = v}
             IN  IF hits = {} THEN NotFound ELSE Found(rows[KthSmallest(hits, 1)])

\* C16: resolveReference(t, c, v) returns nothing found when no edge has
\* (from_table, from_column) = (t, c); otherwise it returns the first row of
\* the edge's target table, sample rows then recursive rows, whose to_column
\* strictly equals v, and nothing found if there is none; for every value v.
C16_ResolveReference ==
    (mcall.op = "resolveReference" /\ schemaMap.loaded) =>
        LET edges == MatchingEdges(schemaMap, mcall.table, mcall.column)
        IN  IF edges = {} THEN mcall.ref = NotFound
            ELSE mcall.ref = FirstMatchingRow(schemaMap,
                                              schemaMap.relationships[KthSmallest(edges, 1)],
                                              mcall.value)

\* ---------------------------------------------------------------- C17
\* a mapper on which only document d was loaded
OnlyLoaded(d) == AssignSchemaMap(NoSchema, loadSchema(SchemaDocs[d]))

EntryNames(jsonData) == {jsonData[i].name : i \in DOMAIN jsonData}

\* C17: after loadSchema(d1) and then loadSchema(d2) the map is the one a
\* mapper holds on which only d2 was loaded, every read returns what it
\* returns on that mapper, and every table and every edge of the map comes
\* from d2.
C17_LoadReplacesWholesale ==
    (loads # <<>>) =>
        LET d2 == loads[Len(loads)]
            only == OnlyLoaded(d2)
        IN  /\ schemaMap = only
            /\ \A i \in DOMAIN schemaMap.tables :
                  schemaMap.tables[i].name \in EntryNames(SchemaDocs[d2])
            /\ \A i \in DOMAIN schemaMap.relationships :
                  schemaMap.relationships[i].from_table \in EntryNames(SchemaDocs[d2])
            /\ mcall.op = "getRelatedTables" =>
                  mcall.related = getRelatedTables(only, mcall.table)
            /\ mcall.op = "resolveReference" =>
                  mcall.ref = resolveReference(only, mcall.table, mcall.column, mcall.value)
            /\ mcall.op = "getTablesByCategory" =>
                  mcall.names = getTablesByCategory(only, mcall.category)
            /\ mcall.op = "generateSchemaDocumentation" =>
                  mcall.doc = generateSchemaDocumentation(only)

\* the graph document was loaded, then the shop document, and a read of a
\* table of the graph document finds nothing
C17_Witness ==
    /\ Len(loads) = 2
    /\ loads[1] = "graph"
    /\ loads[2] = "shop"
    /\ mcall.op = "getRelatedTables"
    /\ mcall.table = "a"
    /\ mcall.related = <<>>
    /\ getRelatedTables(OnlyLoaded("graph"), "a") # <<>>

\* ================================================================ narration claims
Expansions == {k \in DOMAIN narr.trace : narr.trace[k].kind = "expand"}
Resolutions == {k \in DOMAIN narr.trace : narr.trace[k].kind = "resolved"}

\* the (table, identity) pair of a trace entry
PairOf(e) == <<e.tableName, IdentityOf(e.record)>>

\* C18: within one narration call no (table, identity) pair is expanded
\* twice and no record is expanded at a depth >= maxDepth, whatever cycles
\* and self-references the schema has, and the call returns.
C18_NoRevisitNoOverDepth ==
    /\ [](\A i, j \in Expansions :
            i # j => PairOf(narr.trace[i]) # PairOf(narr.trace[j]))
    /\ [](\A i \in Expansions : narr.trace[i].depth < narr.maxDepth)
    /\ ((narr.pc = "run") ~> (narr.pc = "done"))

\* a call with maxDepth = 3 on the graph document has returned after it
\* resolved, below the top, a reference to a record it had expanded before
\* (a cycle) and a reference of a record to itself
C18_Witness ==
    /\ narr.pc = "done"
    /\ narr.maxDepth = 3
    /\ loads[Len(loads)] = "graph"
    /\ \E k \in Resolutions, i \in Expansions :
          /\ i < k
          /\ narr.trace[k].depth >= 1
          /\ narr.trace[i].depth = 0
          /\ PairOf(narr.trace[k]) = PairOf(narr.trace[i])
    /\ \E k \in Resolutions, i \in Expansions :
          /\ i < k
          /\ narr.trace[k].depth = narr.trace[i].depth
          /\ PairOf(narr.trace[k]) = PairOf(narr.trace[i])

\* ---------------------------------------------------------------- C19
\* the orders record {id: 1, customer_id: 42} narrated with maxDepth = 2 on
\* the schema orders.customer_id -> customers.id
AcmeScenario ==
    /\ loads # <<>>
    /\ loads[Len(loads)] = "shop"
    /\ narr.pc = "done"
    /\ narr.tableName = "orders"
    /\ narr.record = <<F("id", Num(1)), F("customer_id", Num(42))>>
    /\ narr.maxDepth = 2

\* C19: in that scenario the call returns exactly one narrative line, and
\* the line refers to "Acme".
C19_AcmeOnce ==
    AcmeScenario =>
        /\ Len(narr.narratives) = 1
        /\ includes(narr.narratives[1], "Acme")

\* the scenario has run; its line is the generic narrative of customers
C19_Witness ==
    /\ AcmeScenario
    /\ narr.narratives = <<"customers (name: Acme)">>

\* ---------------------------------------------------------------- C20
\* this step resolved a foreign-key reference at a depth d with d + 1 < maxDepth
ResolvedBelowMaxDepth ==
    /\ Len(narr'.trace) = Len(narr.trace) + 1
    /\ narr'.trace[Len(narr'.trace)].kind = "resolved"
    /\ narr'.trace[Len(narr'.trace)].depth + 1 < narr.maxDepth

\* this step called buildRelationshipNarrative on the record it resolved,
\* at depth + 1
RecursedIntoResolved ==
    LET e == narr'.trace[Len(narr'.trace)]
    IN  /\ Len(narr'.stack) = Len(narr.stack) + 1
        /\ narr'.stack[Len(narr'.stack)] = Frame(e.record, e.tableName, e.depth + 1)

\* C20: every foreign-key reference that resolves to a record at depth d
\* with d + 1 < maxDepth is followed by the recursive call on that record at
\* depth d + 1, whether its narrative line was produced or suppressed.
C20_RecursesIntoEveryResolved ==
    [][ResolvedBelowMaxDepth => RecursedIntoResolved]_vars

\* ---------------------------------------------------------------- C21
\* the edge resolveReference looks up for (tableName, columnName) exists, and
\* its target table is not in the schema or holds no row with that value
Unresolvable(sm, tableName, columnName, value) ==
    /\ sm.loaded
    /\ LET r == FindEdge(sm.relationships, tableName, columnName)
       IN  /\ r # 0
           /\ LET t == TableIndex(sm, sm.relationships[r].to_table)
              IN  \/ t = 0
                  \/ \A row \in Range(sm.tables[t].sample_rows \o sm.tables[t].recursive_rows) :
                        Field(row, sm.relationships[r].to_column) # value

\* the loop of the activation at the top of the stack is at a foreign key
\* whose reference cannot be resolved
AtUnresolvableEdge ==
    /\ narr.pc = "run"
    /\ Top.pc = "loop"
    /\ Top.rel <= Len(Top.relatedTables)
    /\ Top.relatedTables[Top.rel].type = "foreign_key"
    /\ Unresolvable(schemaMap, Top.tableName, Top.relatedTables[Top.rel].via,
                    Field(Top.record, Top.relatedTables[Top.rel].via))

\* the step pushed no line, called nothing, and moved the same activation
\* to its next relation
PassedOver ==
    /\ narr'.pc = "run"
    /\ narr'.narratives = narr.narratives
    /\ Len(narr'.stack) = Len(narr.stack)
    /\ narr'.stack[Len(narr'.stack)] = [Top EXCEPT !.rel = @ + 1]
    /\ narr'.visited = narr.visited

RankedIds(q) ==
    IF calls[http[q].call].target = "mem"
    THEN {Stored(http[q].ns)[i].id : i \in DOMAIN Stored(http[q].ns)}
    ELSE {x.id : x \in chromaDb[http[q].ns]}

\* request i is an ingest that was answered ok before the query request q
\* on the same namespace came, and q was answered
IngestThenQuery(i, q) ==
    /\ http[i].route = "ingest"
    /\ http[i].status = "ok"
    /\ http[q].route = "query"
    /\ http[q].status = "ok"
    /\ i \in http[q].seen
    /\ http[q].ns = http[i].ns

\* C23: the chunks of an ingest that was answered ok are among the records
\* ranked by every later query on the same namespace, whatever the state of
\* the router.
C23_IngestThenQuery ==
    \A i, q \in DOMAIN http :
        IngestThenQuery(i, q) =>
            \A k \in DOMAIN http[i].chunks : http[i].chunks[k] \in RankedIds(q)

\* ---------------------------------------------------------------- C24
\* this step answers the trigger-load request r with ok
TriggerAnswersOk(r) ==
    /\ http[r].route = "trigger"
    /\ http[r].pc # "done"
    /\ http'[r].pc = "done"
    /\ http'[r].status = "ok"

\* the ids of the records that the requests answered ok before request r
\* came had stored in the namespace of r
EarlierIds(r) ==
    UNION {Range(http[i].chunks) :
             i \in {x \in http[r].seen : http[x].status = "ok" /\ http[x].ns = http[r].ns}}

\* C24: when trigger-load is answered ok, the namespace holds the records
\* made from the data file, and no record that an earlier ingestion of the
\* same process had stored there and the data file does not make again is
\* held by the store, returned by a query, or in the file of the namespace.
C24_TriggerLoadClearsOldData ==
    [][\A r \in DOMAIN http :
          TriggerAnswersOk(r) =>
              /\ Range(http[r].chunks) \subseteq IdsOf(Stored(QcNamespace)')
              /\ \A id \in EarlierIds(r) \ Range(http[r].chunks) :
                    /\ id \notin IdsOf(Stored(QcNamespace)')
                    /\ \A e \in Embs : id \notin IdsOf(FullQuery(QcNamespace, e).recs')
                    /\ id \notin IdsOf(disk'[QcNamespace].list)]_vars

\* ================================================================ router claims
\* ---------------------------------------------------------------- C1
ChromaInvocations(cs) ==
    LET RECURSIVE Sum(_)
        Sum(i) == IF i = 0 THEN 0 ELSE Sum(i - 1) + cs[i].nChroma
    IN  Sum(Len(cs))

\* C1: once a fallback branch has run, the router stays on the in-memory
\* store and is never marked upgraded again, and no step hands a call to
\* ChromaDB any more.
C1_OneWayDegrade ==
    /\ [](everDowngraded => (activeStore = "mem" /\ ~isChromaAvailable))
    /\ [][everDowngraded => ChromaInvocations(calls') = ChromaInvocations(calls)]_vars

\* a call was made after the downgrade and has returned
C1_Witness ==
    /\ everDowngraded
    /\ \E c \in DOMAIN calls :
          calls[c].afterDown /\ calls[c].pc = "done" /\ calls[c].first = "mem"

\* ---------------------------------------------------------------- C2
\* C2: every call whose ChromaDB invocation failed is re-issued exactly once
\* against the in-memory store, and returns what that invocation settled
\* with.
C2_EveryDurableFailureRetried ==
    \A c \in DOMAIN calls :
        calls[c].chromaFailed =>
            /\ calls[c].nMem = 1
            /\ calls[c].pc = "done" =>
                  calls[c].outcome = (IF calls[c].pend.outcome = "ok" THEN "ok" ELSE "error")

\* ---------------------------------------------------------------- C3
\* C3: a call whose try block called the in-memory store, and that
\* invocation threw, invokes the in-memory store exactly once, returns the
\* error, and leaves activeStore and isChromaAvailable as they were.
C3_VolatileFailureNotRetried ==
    /\ [](\A c \in DOMAIN calls :
            (calls[c].first = "mem" /\ calls[c].memThrew) =>
                /\ calls[c].nMem = 1
                /\ calls[c].pc = "done"
                /\ calls[c].outcome = "error")
    /\ [][\A c \in DOMAIN calls :
            (calls[c].first = "mem" /\ ~calls[c].memThrew /\ calls'[c].memThrew) =>
                /\ activeStore' = activeStore
                /\ isChromaAvailable' = isChromaAvailable]_vars

\* ---------------------------------------------------------------- C4
\* C4: the try block of a call calls ChromaDB only if the probe had resolved
\* healthy and no downgrade had happened when the call was made; a call made
\* while the probe is pending, or after it resolved unhealthy, calls the
\* in-memory store; before the probe resolves the router is on the
\* in-memory store and not upgraded.
C4_RoutingRule ==
    /\ \A c \in DOMAIN calls :
          /\ calls[c].first = "chroma" => (calls[c].probeAt = "healthy" /\ ~calls[c].afterDown)
          /\ calls[c].probeAt \in {"pending", "unhealthy"} =>
                (calls[c].first = "mem" /\ calls[c].nChroma = 0)
          /\ calls[c].nChroma > 0 => calls[c].first = "chroma"
    /\ probe \in {"pending", "unhealthy"} => (activeStore = "mem" /\ ~isChromaAvailable)

\* a call made while the probe was pending was served by the in-memory
\* store, and a call made after the probe resolved healthy went to ChromaDB
C4_Witness ==
    /\ probe = "healthy"
    /\ \E c, d \in DOMAIN calls :
          /\ calls[c].probeAt = "pending"
          /\ calls[c].first = "mem"
          /\ calls[c].pc = "done"
          /\ calls[d].probeAt = "healthy"
          /\ calls[d].first = "chroma"

\* ---------------------------------------------------------------- C5
Sequential == \A c \in DOMAIN calls : calls[c].seq

\* ChromaDB served the first call and failed the second, an upsert, with
\* one call made at a time
SecondDurableCallFailed ==
    /\ Len(calls) >= 2
    /\ Sequential
    /\ calls[1].first = "chroma"
    /\ calls[1].outcome = "ok"
    /\ ~calls[1].chromaFailed
    /\ calls[2].kind = "upsert"
    /\ calls[2].first = "chroma"
    /\ calls[2].chromaFailed
    /\ calls[2].pc = "done"

\* C5: with ChromaDB serving the first call and failing the second, an
\* upsert: that upsert returns without error, its records are in the
\* in-memory store when it returns, where a router query finds them, and no
\* later call invokes ChromaDB.
C5_FailoverScenario ==
    SecondDurableCallFailed =>
        /\ calls[2].outcome = "ok"
        /\ calls[2].nMem = 1
        /\ activeStore = "mem"
        /\ \A c \in DOMAIN calls : c > 2 => calls[c].nChroma = 0
        /\ Len(calls) = 2 =>
              \A i \in DOMAIN calls[2].batch :
                  LET r == calls[2].batch[i]
                  IN  /\ r \in Range(db[r.ns])
                      /\ r \in Range(FullQuery(r.ns, r.emb).recs)

\* the scenario, followed by a third call that has returned
C5_Witness ==
    /\ SecondDurableCallFailed
    /\ Len(calls) = 3
    /\ calls[3].pc = "done"
    /\ calls[3].kind = "query"
    /\ calls[3].recs # <<>>

\* ---------------------------------------------------------------- C25
\* C25: in every state in which another call can observe the router, the
\* flag isChromaAvailable is set exactly when the active store is ChromaDB,
\* and getActiveStorageType reports 'ChromaDB' exactly then.
C25_FlagMatchesActiveStore ==
    /\ isChromaAvailable <=> (activeStore = "chroma")
    /\ (getActiveStorageType(activeStore) = "ChromaDB") <=> isChromaAvailable

\* the router was upgraded by a healthy probe and has fallen back since,
\* while another call is still awaited
C25_Witness ==
    /\ probe = "healthy"
    /\ everDowngraded
    /\ ~isChromaAvailable
    /\ activeStore = "mem"
    /\ \E c, d \in DOMAIN calls :
          /\ calls[c].chromaFailed
          /\ calls[d].first = "chroma"
          /\ InFlight(d)

\* ---------------------------------------------------------------- C26
\* a query the router answers after a downgrade: it was made after one, or
\* its own ChromaDB invocation threw
AnsweredAfterDowngrade(c) ==
    /\ calls[c].kind = "query"
    /\ calls[c].afterDown \/ calls[c].chromaFailed
    /\ calls[c].pc = "done"
    /\ calls[c].outcome = "ok"

\* the records ChromaDB holds of a namespace that the in-memory store does not
DurableOnly(n) == {r \in chromaDb[n] : r.id \notin IdsOf(Stored(n))}

\* C26: nothing is copied from ChromaDB on a downgrade: a router query
\* answered after the downgrade returns only records the in-memory store
\* holds, and never a record that an upsert stored in ChromaDB alone while
\* the router was upgraded.
C26_NoMigrationOnDowngrade ==
    \A c \in DOMAIN calls :
        AnsweredAfterDowngrade(c) =>
            /\ IdsOf(calls[c].recs) \subseteq IdsOf(Stored(calls[c].q.namespace))
            /\ \A r \in DurableOnly(calls[c].q.namespace) : r \notin Range(calls[c].recs)

\* an upsert stored a record in ChromaDB alone, a later upsert caused the
\* downgrade, and a query made after it found a record of the namespace
C26_Witness ==
    /\ everDowngraded
    /\ \E u, c \in DOMAIN calls :
          /\ u < c
          /\ calls[u].kind = "upsert"
          /\ calls[u].first = "chroma"
          /\ calls[u].outcome = "ok"
          /\ ~calls[u].chromaFailed
          /\ AnsweredAfterDowngrade(c)
          /\ calls[c].afterDown
          /\ calls[c].recs # <<>>
          /\ DurableOnly(calls[c].q.namespace) # {}

\* ================================================================ concurrency claims
\* the lists of a store that took, whole and in the order the calls were
\* made, the batches of the first k calls
RECURSIVE SerialDb(_)
SerialDb(k) ==
    IF k = 0 THEN [n \in NS |-> <<>>]
    ELSE IF calls[k].kind = "upsert"
         THEN upsert([m |-> FALSE, keys |-> NS, db |-> SerialDb(k - 1),
                      disk |-> [n \in NS |-> AbsentFile]], calls[k].batch, "ok").db
         ELSE SerialDb(k - 1)

\* C27: with upsert and query calls made side by side on one namespace, the
\* store holds at every suspension exactly the batches of the calls made so
\* far, each applied whole and in the order the calls were made (the later
\* batch keeps a shared id), and a query ranks exactly the batches of the
\* calls made before it: all of each, and nothing of a later one.
C27_UpsertIsAtomic ==
    /\ \A n \in NS : Stored(n) = SerialDb(Len(calls))[n]
    /\ \A c \in DOMAIN calls :
          calls[c].kind = "query" =>
              calls[c].pend.recs =
                  Ranked(SerialDb(c - 1)[calls[c].q.namespace],
                         calls[c].q.embedding, calls[c].q.topK)

\* a query was made between two upserts that collide on x, while the first
\* upsert was still awaited, and a second query after both
C27_Witness ==
    /\ Len(calls) = 3
    /\ calls[1].kind = "upsert"
    /\ calls[2].kind = "upsert"
    /\ calls[2].batch # calls[1].batch
    /\ calls[3].kind = "query"
    /\ calls[1].pc = "await"
    /\ Len(calls[3].pend.recs) = 3
    /\ \E k \in 1..3 : calls[3].pend.recs[k] = calls[2].batch[1]

\* ---------------------------------------------------------------- C28
\* the complete map of the document loadSchema was last called with
Installed == IF loads = <<>> THEN NoSchema ELSE loadSchema(SchemaDocs[loads[Len(loads)]])

\* C28: every step leaves schemaMap alone or installs the complete map of
\* one document, so the map is always the complete map of the last
\* loadSchema call (or none), and getRelatedTables, resolveReference and the
\* turns of a narration return what they return on that complete map.
C28_SchemaInstalledWhole ==
    /\ [](/\ schemaMap = Installed
          /\ mcall.op = "getRelatedTables" =>
                mcall.related = getRelatedTables(Installed, mcall.table)
          /\ mcall.op = "resolveReference" =>
                mcall.ref = resolveReference(Installed, mcall.table, mcall.column, mcall.value)
          /\ \A k \in DOMAIN narr.stack :
                narr.stack[k].pc = "loop" =>
                    narr.stack[k].relatedTables =
                        getRelatedTables(Installed, narr.stack[k].tableName))
    /\ [][schemaMap' # schemaMap =>
            \E d \in DocNames : schemaMap' = loadSchema(SchemaDocs[d])]_vars

\* a second document was loaded over a first, and a read made after it
\* found a row that the first document's map does not give
C28_Witness ==
    /\ Len(loads) = 2
    /\ loads[1] # loads[2]
    /\ mcall.op = "resolveReference"
    /\ mcall.ref.found
    /\ ~resolveReference(loadSchema(SchemaDocs[loads[1]]),
                         mcall.table, mcall.column, mcall.value).found

\* ================================================================ ingest claims
\* chunk i of the request is in the store with the vector embedMany gives
\* for text i
StoredWithOwnVector(r) ==
    \A i \in DOMAIN http[r].chunks :
        [id |-> http[r].chunks[i], ns |-> http[r].ns,
         emb |-> embedMany(http[r].chunks)[i]] \in Range(Stored(http[r].ns))

\* the step in which embedMany of the ingest request r rejects
EmbedFailsFor(r) ==
    /\ http[r].route = "ingest"
    /\ http[r].pc = "embed"
    /\ http'[r].status = "error"

\* C29: when embedMany rejects, POST /ingest leaves both stores as they
\* were and answers ok: false, and no chunk of the request is ever stored;
\* when it resolves, every chunk i is stored with the vector at index i.
C29_IngestAllOrNothing ==
    /\ [][\A r \in DOMAIN http :
            EmbedFailsFor(r) =>
                /\ storeVars' = storeVars
                /\ chromaDb' = chromaDb
                /\ http'[r].pc = "done"]_vars
    /\ [](\A r \in DOMAIN http :
            http[r].route = "ingest" =>
                /\ http[r].status = "error" =>
                      \A i \in DOMAIN http[r].chunks :
                          http[r].chunks[i] \notin IdsOf(Stored(http[r].ns))
                /\ http[r].pc \in {"upsert", "stats", "done"} /\ http[r].status # "error" =>
                      StoredWithOwnVector(r))

\* one request with chunks was answered ok: false, and another, with two
\* chunks of different vectors, ok: true
C29_Witness ==
    \E r, t \in DOMAIN http :
        /\ http[r].route = "ingest"
        /\ http[r].status = "error"
        /\ http[r].chunks # <<>>
        /\ http[t].route = "ingest"
        /\ http[t].status = "ok"
        /\ Len(http[t].chunks) = 2
        /\ http[t].vectors[1] # http[t].vectors[2]

\* ---------------------------------------------------------------- C30
\* the ids of the chunks of request r
ChunkIds(r) == {http[r].chunks[i] : i \in DOMAIN http[r].chunks}

\* C30: an ingest response with ok: true and storageType 'ChromaDB' means
\* the records of the request are in the ChromaDB collection of the
\* namespace, and one with 'In-Memory' that they are in the in-memory list.
C30_StorageTypeNamesReceiver ==
    \A r \in DOMAIN http :
        (http[r].route = "ingest" /\ http[r].status = "ok") =>
            /\ http[r].storageType = "ChromaDB" =>
                  ChunkIds(r) \subseteq {x.id : x \in chromaDb[http[r].ns]}
            /\ http[r].storageType = "In-Memory" =>
                  ChunkIds(r) \subseteq IdsOf(Stored(http[r].ns))

====
